---- MODULE Spec2Model ----
(***************************************************************************)
(* State-machine model of the Landviewer editor (components/Editor.tsx,    *)
(* components/DraggablePoint.tsx): the correspondence store, the guided    *)
(* "auto pin" protocol, the reactive transform recomputation, the contain  *)
(* geometry and the asynchronous colour-filter passes.                     *)
(*                                                                         *)
(* JavaScript numbers are modelled as exact rationals <<num, den>>.        *)
(* React state is modelled as one record per render; an event handler is   *)
(* an operator from that record to the record after the handler and after  *)
(* every effect the resulting renders run (RunEffects).                    *)
(***************************************************************************)
EXTENDS Integers, Sequences, FiniteSets, TLC

----------------------------------------------------------------------------
(* Exact rational arithmetic standing for JavaScript numbers.              *)

Abs(n) == IF n < 0 THEN -n ELSE n

RECURSIVE GCD(_, _)
GCD(a, b) == IF b = 0 THEN a ELSE GCD(b, a % b)

\* the normal form of n/d: positive denominator, lowest terms
Rat(n, d) ==
    LET g == GCD(Abs(n), Abs(d))
        s == IF d < 0 THEN -1 ELSE 1
    IN  <<(s * n) \div g, (s * d) \div g>>

RInt(n) == <<n, 1>>
Zero == RInt(0)
One == RInt(1)
Two == RInt(2)
RAdd(p, q) == Rat(p[1] * q[2] + q[1] * p[2], p[2] * q[2])
RSub(p, q) == Rat(p[1] * q[2] - q[1] * p[2], p[2] * q[2])
RMul(p, q) == Rat(p[1] * q[1], p[2] * q[2])
RDiv(p, q) == Rat(p[1] * q[2], p[2] * q[1])
RNeg(p) == <<-p[1], p[2]>>
RAbs(p) == <<Abs(p[1]), p[2]>>
RLt(p, q) == p[1] * q[2] < q[1] * p[2]
RLe(p, q) == p[1] * q[2] <= q[1] * p[2]
RMax(p, q) == IF RLt(p, q) THEN q ELSE p
RMin(p, q) == IF RLt(q, p) THEN q ELSE p

\* a sequence given as a function, with every element evaluated once
Eager(f, n) == SubSeq(f, 1, n)

Pt(px, py) == [x |-> px, y |-> py]
IPt(ix, iy) == Pt(RInt(ix), RInt(iy))

----------------------------------------------------------------------------
(* HomographySolver: solveSystem and getPerspectiveTransform.              *)

\* the order of the linear system: two equations per correspondence
SysN == 8

\* 1e-9 as 1 / PivotEpsDen
PivotEpsDen == 1000000000

\* Math.abs(p) < 1e-9
BelowPivotEps(p) == Abs(p[1]) <= (p[2] - 1) \div PivotEpsDen

\* "no solution" of solveSystem (null) and of getPerspectiveTransform ('none')
null == <<>>
none == <<>>

\* the inner loop over k = i+1..n-1 that selects the pivot row
RECURSIVE MaxRowFrom(_, _, _, _)
MaxRowFrom(M, i, k, maxRow) ==
    IF k > SysN THEN maxRow
    ELSE MaxRowFrom(M, i, k + 1,
            IF RLt(RAbs(M[maxRow][i]), RAbs(M[k][i])) THEN k ELSE maxRow)

SwapRows(M, i, r) == [M EXCEPT ![i] = M[r], ![r] = M[i]]

\* the elimination of column i from the rows below row i
EliminateBelow(M, i) ==
    Eager([k \in 1..SysN |->
        IF k <= i THEN M[k]
        ELSE LET factor == RDiv(RNeg(M[k][i]), M[i][i])
             IN  Eager([j \in 1..(SysN + 1) |->
                     IF j < i THEN M[k][j]
                     ELSE IF j = i THEN Zero
                     ELSE RAdd(M[k][j], RMul(factor, M[i][j]))], SysN + 1)], SysN)

RECURSIVE ForwardEliminate(_, _)
ForwardEliminate(M, i) ==
    IF i > SysN THEN M
    ELSE LET S == SwapRows(M, i, MaxRowFrom(M, i, i + 1, i))
         IN  IF BelowPivotEps(S[i][i]) THEN null
             ELSE ForwardEliminate(EliminateBelow(S, i), i + 1)

RECURSIVE BackSubstitute(_, _, _)
BackSubstitute(M, i, x) ==
    IF i < 1 THEN x
    ELSE LET xi == RDiv(M[i][SysN + 1], M[i][i])
             M2 == Eager([k \in 1..SysN |->
                       IF k < i
                       THEN [M[k] EXCEPT ![SysN + 1] =
                                RSub(M[k][SysN + 1], RMul(M[k][i], xi))]
                       ELSE M[k]], SysN)
         IN  BackSubstitute(M2, i - 1, [x EXCEPT ![i] = xi])

solveSystem(A, b) ==
    LET augmentedMatrix ==
            Eager([i \in 1..SysN |->
                Eager([j \in 1..(SysN + 1) |->
                    IF j <= SysN THEN A[i][j] ELSE b[i]], SysN + 1)], SysN)
        F == ForwardEliminate(augmentedMatrix, 1)
    IN  IF F = null THEN null
        ELSE BackSubstitute(F, SysN, Eager([i \in 1..SysN |-> Zero], SysN))

\* EqY with the source coordinates in the other order
EqYSwapped(s, d) == <<Zero, Zero, Zero, s.y, s.x, One,
                      RNeg(RMul(s.x, d.y)), RNeg(RMul(s.y, d.y))>>

\* the two equations of the correspondence s -> d
EqX(s, d) == <<s.x, s.y, One, Zero, Zero, Zero,
               RNeg(RMul(s.x, d.x)), RNeg(RMul(s.y, d.x))>>
EqY(s, d) == <<Zero, Zero, Zero, s.x, s.y, One,
               RNeg(RMul(s.x, d.y)), RNeg(RMul(s.y, d.y))>>

\* getPerspectiveTransform with the solution laid out row by row
getPerspectiveTransformRowMajor(src, dst) ==
    IF Len(src) # 4 \/ Len(dst) # 4 THEN none
    ELSE LET A == Eager([r \in 1..SysN |->
                      IF r % 2 = 1 THEN EqX(src[(r + 1) \div 2], dst[(r + 1) \div 2])
                                   ELSE EqY(src[r \div 2], dst[r \div 2])], SysN)
             b == Eager([r \in 1..SysN |->
                      IF r % 2 = 1 THEN dst[(r + 1) \div 2].x
                                   ELSE dst[r \div 2].y], SysN)
             h == solveSystem(A, b)
         IN  IF h = null THEN none
             ELSE <<h[1], h[2], Zero, h[3],
                    h[4], h[5], Zero, h[6],
                    Zero, Zero, One,  Zero,
                    h[7], h[8], Zero, One>>

\* getPerspectiveTransform with 0 in the matrix where g and h belong
getPerspectiveTransformAffine(src, dst) ==
    IF Len(src) # 4 \/ Len(dst) # 4 THEN none
    ELSE LET A == Eager([r \in 1..SysN |->
                      IF r % 2 = 1 THEN EqX(src[(r + 1) \div 2], dst[(r + 1) \div 2])
                                   ELSE EqY(src[r \div 2], dst[r \div 2])], SysN)
             b == Eager([r \in 1..SysN |->
                      IF r % 2 = 1 THEN dst[(r + 1) \div 2].x
                                   ELSE dst[r \div 2].y], SysN)
             h == solveSystem(A, b)
         IN  IF h = null THEN none
             ELSE <<h[1], h[4], Zero, Zero,
                    h[2], h[5], Zero, Zero,
                    Zero, Zero, One,  Zero,
                    h[3], h[6], Zero, One>>

\* the 16 entries of matrix3d(...), or none
getPerspectiveTransform(src, dst) ==
    IF Len(src) # 4 \/ Len(dst) # 4 THEN none
    ELSE LET A == Eager([r \in 1..SysN |->
                      IF r % 2 = 1 THEN EqX(src[(r + 1) \div 2], dst[(r + 1) \div 2])
                                   ELSE EqY(src[r \div 2], dst[r \div 2])], SysN)
             b == Eager([r \in 1..SysN |->
                      IF r % 2 = 1 THEN dst[(r + 1) \div 2].x
                                   ELSE dst[r \div 2].y], SysN)
             h == solveSystem(A, b)
         IN  IF h = null THEN none
             ELSE <<h[1], h[4], Zero, h[7],
                    h[2], h[5], Zero, h[8],
                    Zero, Zero, One,  Zero,
                    h[3], h[6], Zero, One>>

\* where the browser puts the point p of the element's plane under the
\* matrix3d(...) m (column-major, z = 0): the division by w is the
\* perspective division
ApplyMatrix3d(m, p) ==
    LET w == RAdd(RAdd(RMul(m[4], p.x), RMul(m[8], p.y)), m[16])
    IN  Pt(RDiv(RAdd(RAdd(RMul(m[1], p.x), RMul(m[5], p.y)), m[13]), w),
           RDiv(RAdd(RAdd(RMul(m[2], p.x), RMul(m[6], p.y)), m[14]), w))

\* the w the perspective division divides by
Matrix3dW(m, p) == RAdd(RAdd(RMul(m[4], p.x), RMul(m[8], p.y)), m[16])

----------------------------------------------------------------------------
(* ContainGeometry.                                                        *)

Geom(gx, gy, gw, gh) == [x |-> gx, y |-> gy, width |-> gw, height |-> gh]
ZeroGeom == Geom(Zero, Zero, Zero, Zero)

\* calculateObjectContainGeometry with the comparison of the ratios turned round
calculateObjectCoverGeometry(containerWidth, containerHeight, imgNaturalWidth, imgNaturalHeight) ==
    LET imgRatio == RDiv(imgNaturalWidth, imgNaturalHeight)
        containerRatio == RDiv(containerWidth, containerHeight)
    IN  IF RLt(imgRatio, containerRatio)
        THEN LET renderedWidth == containerWidth
                 renderedHeight == RDiv(renderedWidth, imgRatio)
             IN  Geom(Zero, RDiv(RSub(containerHeight, renderedHeight), Two),
                      renderedWidth, renderedHeight)
        ELSE LET renderedHeight == containerHeight
                 renderedWidth == RMul(renderedHeight, imgRatio)
             IN  Geom(RDiv(RSub(containerWidth, renderedWidth), Two), Zero,
                      renderedWidth, renderedHeight)

calculateObjectContainGeometry(containerWidth, containerHeight, imgNaturalWidth, imgNaturalHeight) ==
    LET imgRatio == RDiv(imgNaturalWidth, imgNaturalHeight)
        containerRatio == RDiv(containerWidth, containerHeight)
    IN  IF RLt(containerRatio, imgRatio)
        THEN LET renderedWidth == containerWidth
                 renderedHeight == RDiv(renderedWidth, imgRatio)
             IN  Geom(Zero, RDiv(RSub(containerHeight, renderedHeight), Two),
                      renderedWidth, renderedHeight)
        ELSE LET renderedHeight == containerHeight
                 renderedWidth == RMul(renderedHeight, imgRatio)
             IN  Geom(RDiv(RSub(containerWidth, renderedWidth), Two), Zero,
                      renderedWidth, renderedHeight)

----------------------------------------------------------------------------
(* ColorFilter: hexToRgb, colorDistance and the pixel loop of              *)
(* processImageColors.                                                     *)

\* a colour '#rrggbb' is its six hexadecimal digits
Hex(r1, r2, g1, g2, b1, b2) == <<r1, r2, g1, g2, b1, b2>>
ColorFilter(color, tolerance) == [color |-> color, tolerance |-> tolerance]
Rgba(r, g, b, a) == [r |-> r, g |-> g, b |-> b, a |-> a]

\* parseInt(result[k], 16) of the three digit pairs
hexToRgb(hex) ==
    [r |-> 16 * hex[1] + hex[2], g |-> 16 * hex[3] + hex[4], b |-> 16 * hex[5] + hex[6]]

\* the square of colorDistance
colorDistanceSquared(rgb1, rgb2) ==
    (rgb1.r - rgb2.r) * (rgb1.r - rgb2.r) + (rgb1.g - rgb2.g) * (rgb1.g - rgb2.g)
        + (rgb1.b - rgb2.b) * (rgb1.b - rgb2.b)

\* the match test with <= in place of <
WithinToleranceInclusive(pixel, f) ==
    10000 * colorDistanceSquared(pixel, hexToRgb(f.color))
        <= (255 * f.tolerance) * (255 * f.tolerance)

\* colorDistance(pixelRgb, rule) < rule.tolerance with tolerance =
\* f.tolerance * 2.55: both sides are squared and scaled by 100 * 100.  The
\* two sides are equal only for a tolerance that is a multiple of 20, where
\* the product in floating point is the exact one or just below it, and the
\* strict comparison is false either way.
WithinTolerance(pixel, f) ==
    10000 * colorDistanceSquared(pixel, hexToRgb(f.color))
        < (255 * f.tolerance) * (255 * f.tolerance)

\* the index of the first rule of rules the pixel is within, 0 for none
FirstMatch(pixel, rules) ==
    LET hits == {k \in 1..Len(rules) : WithinTolerance(pixel, rules[k])}
    IN  IF hits = {} THEN 0 ELSE CHOOSE k \in hits : \A j \in hits : k <= j

\* one round of the loop over the pixels, with the keep rules tested before
\* the remove rules
processPixelKeepFirst(pixel, filters) ==
    LET kept == FirstMatch(pixel, filters.keep)
    IN  IF kept # 0
        THEN LET target == hexToRgb(filters.keep[kept].color)
             IN  Rgba(target.r, target.g, target.b, 255)
        ELSE IF FirstMatch(pixel, filters.remove) # 0 \/ Len(filters.keep) > 0
        THEN [pixel EXCEPT !.a = 0]
        ELSE pixel

\* one round of the loop with the last matching keep rule's colour
processPixelLastKeep(pixel, filters) ==
    IF FirstMatch(pixel, filters.remove) # 0 THEN [pixel EXCEPT !.a = 0]
    ELSE IF Len(filters.keep) > 0
    THEN LET hits == {k \in 1..Len(filters.keep) :
                        WithinTolerance(pixel, filters.keep[k])}
         IN  IF hits = {} THEN [pixel EXCEPT !.a = 0]
             ELSE LET kept == CHOOSE k \in hits : \A j \in hits : j <= k
                      target == hexToRgb(filters.keep[kept].color)
                  IN  Rgba(target.r, target.g, target.b, 255)
    ELSE pixel

\* one round of the loop with a pixel outside every rule made transparent
\* also when there is no keep rule
processPixelKeepRequired(pixel, filters) ==
    IF FirstMatch(pixel, filters.remove) # 0 THEN [pixel EXCEPT !.a = 0]
    ELSE LET kept == FirstMatch(pixel, filters.keep)
         IN  IF kept = 0 THEN [pixel EXCEPT !.a = 0]
             ELSE LET target == hexToRgb(filters.keep[kept].color)
                  IN  Rgba(target.r, target.g, target.b, 255)

\* one round of the loop over the pixels: data[i..i+3]
processPixel(pixel, filters) ==
    IF FirstMatch(pixel, filters.remove) # 0 THEN [pixel EXCEPT !.a = 0]
    ELSE IF Len(filters.keep) > 0
    THEN LET kept == FirstMatch(pixel, filters.keep)
         IN  IF kept = 0 THEN [pixel EXCEPT !.a = 0]
             ELSE LET target == hexToRgb(filters.keep[kept].color)
                  IN  Rgba(target.r, target.g, target.b, 255)
    ELSE pixel

\* the image data processImageColors puts back on the canvas
processImageColors(data, filters) ==
    Eager([i \in 1..Len(data) |-> processPixel(data[i], filters)], Len(data))

----------------------------------------------------------------------------
(* The images and the page layout the editor runs in.                      *)

\* natural size of the cadastral overlay (img.naturalWidth/naturalHeight)
OverlayNatural == [width |-> RInt(4), height |-> RInt(2)]
\* the overlays the layout runs are made with: wider and narrower than the photo
OverlayFiles == {OverlayNatural, [width |-> RInt(2), height |-> RInt(4)]}
\* natural size of the field photo
PhotoNatural == [width |-> RInt(4), height |-> RInt(4)]

Size(w, h) == [width |-> w, height |-> h]
\* "not yet known": overlayImageSize = null, containerRect = null
NullSize == Size(Zero, Zero)
IsKnown(sz) == sz # NullSize

\* sizes the main container takes
ContainerSizes == {Size(RInt(16), RInt(8)), Size(RInt(12), RInt(12))}

\* The thumbnail box ("absolute top-4 left-4 w-1/4 ... border-2") in container
\* coordinates, in units of 16px: a quarter of the container wide, as high as
\* its image is at the width left between the borders, plus the borders.
PreviewInset == One
PreviewBorder == Rat(1, 8)
PreviewBox(container, image) ==
    LET boxWidth == RDiv(container.width, RInt(4))
        borders == RMul(Two, PreviewBorder)
    IN  [left |-> PreviewInset, top |-> PreviewInset,
         width |-> boxWidth,
         height |-> RAdd(borders, RDiv(RMul(RSub(boxWidth, borders), image.height),
                                       image.width))]

InBox(p, box) ==
    /\ RLe(box.left, p.x) /\ RLe(p.x, RAdd(box.left, box.width))
    /\ RLe(box.top, p.y)  /\ RLe(p.y, RAdd(box.top, box.height))

----------------------------------------------------------------------------
(* Bounds of the exploration.                                              *)

\* per behaviour, the events that leave the plain run of loading, clicking
\* and moving the pointer: presses of a mode button, presses of a handle
\* (drag gestures), Apply presses of the colour-filter dialog and changes of
\* the container's size
MaxDetours == 2

\* the step counter of the guided protocol after the last pair
StepsTotal == 8

\* positions of the slider "Initial Scale" (0.1 .. 1.2 in steps of 0.05)
ScaleChoices == {Rat(1, 2), One}
DefaultScale == Rat(1, 2)

\* where the user aims for pair n (1..4) on the thumbnail and on the photo,
\* in container coordinates
SourceAim == <<Pt(One, Rat(17, 16)), Pt(RInt(5), Rat(17, 16)),
               Pt(RInt(5), Rat(49, 16)), Pt(One, Rat(49, 16))>>
DestAim == <<IPt(6, 3), IPt(10, 3), IPt(10, 5), IPt(6, 5)>>
\* inside the thumbnail box, above the rect of the displayed overlay image
ThumbMargin == IPt(3, 1)
PairOf(step) == IF step >= StepsTotal THEN 4 ELSE (step \div 2) + 1
ClickPositions(step) ==
    {SourceAim[PairOf(step)], ThumbMargin, DestAim[PairOf(step)]}

\* on the main surface beside the displayed field photo, clear of the thumbnail
Letterbox == IPt(14, 4)

\* points of the overlay's plane, in overlay-natural coordinates, at which
\* two transforms are compared
ProbePoints == {IPt(0, 0), IPt(4, 2), IPt(2, 1), IPt(1, 2), IPt(3, 3), IPt(7, -2)}

\* where the pointer moves to during a drag, in container coordinates
MovePositions == {IPt(8, 4), Pt(RInt(2), Rat(33, 16))}

\* correspondences the solver is run on by itself: the square of the
\* translation scenario, the overlay's corners, a square away from the
\* origin, a quadrilateral without parallel sides, three points on a line
\* with the fourth off it, a point taken twice, four points on a line, and
\* sequences of 3 and of 5 points
SolverQuads ==
    {<<IPt(0, 0), IPt(10, 0), IPt(10, 10), IPt(0, 10)>>,
     <<IPt(0, 0), IPt(4, 0), IPt(4, 2), IPt(0, 2)>>,
     <<IPt(1, 1), IPt(2, 1), IPt(2, 2), IPt(1, 2)>>,
     <<IPt(0, 0), IPt(8, 0), IPt(6, 4), IPt(1, 3)>>,
     <<IPt(12, 6), IPt(12, 4), IPt(9, 6), IPt(8, 8)>>,
     <<IPt(0, 1), IPt(1, 1), IPt(2, 1), IPt(0, 0)>>,
     <<IPt(0, 0), IPt(1, 0), IPt(2, 0), IPt(0, 1)>>,
     <<IPt(0, 0), IPt(0, 0), IPt(1, 1), IPt(0, 1)>>,
     <<IPt(0, 0), IPt(1, 0), IPt(2, 0), IPt(3, 0)>>,
     <<IPt(0, 0), IPt(4, 0), IPt(4, 2)>>,
     <<IPt(0, 0), IPt(4, 0), IPt(4, 2), IPt(0, 2), IPt(2, 1)>>}
\* the sequence pts moved by t
MovedBy(pts, t) ==
    Eager([i \in 1..Len(pts) |-> Pt(RAdd(pts[i].x, t.x), RAdd(pts[i].y, t.y))], Len(pts))

\* widths and heights of the containers and images the contain fit is run
\* on by itself
Sides == {One, Two, RInt(3), Rat(5, 2), RInt(100), RInt(200), RInt(400)}

\* the longest image data (in pixels) a filter pass is run on by itself
MaxPixels == 2
\* the colours of the rules and of the pixels
Colors ==
    [red |-> Hex(15, 15, 0, 0, 0, 0), vermilion |-> Hex(15, 15, 2, 8, 0, 0),
     orange |-> Hex(15, 15, 6, 4, 0, 0), yellow |-> Hex(15, 15, 15, 15, 0, 0),
     white |-> Hex(15, 15, 15, 15, 15, 15), nearWhite |-> Hex(15, 10, 15, 10, 15, 10),
     black |-> Hex(0, 0, 0, 0, 0, 0)]
\* the pixels of the image data: each colour, transparent, half transparent
\* and opaque
Pixels ==
    {Rgba(hexToRgb(Colors[c]).r, hexToRgb(Colors[c]).g, hexToRgb(Colors[c]).b, a) :
        c \in DOMAIN Colors, a \in {0, 128, 255}}
\* the rule sets of the colour-filter dialog: the initial one, the initial
\* one without its yellow rule, then sets without keep rules, without rules, with a remove rule inside a keep
\* rule's tolerance, with keep rules inside one another's tolerance, with
\* the largest tolerance, and with a rule of tolerance 0 alone
InitialFilters ==
    [keep |-> <<ColorFilter(Colors.red, 80)>>,
     remove |-> <<ColorFilter(Colors.yellow, 80), ColorFilter(Colors.white, 5)>>]
FilterChoices ==
    {InitialFilters,
     [keep |-> <<ColorFilter(Colors.red, 80)>>, remove |-> <<ColorFilter(Colors.white, 5)>>],
     [keep |-> <<>>, remove |-> <<ColorFilter(Colors.white, 5)>>],
     [keep |-> <<>>, remove |-> <<>>],
     [keep |-> <<ColorFilter(Colors.red, 80)>>, remove |-> <<>>],
     [keep |-> <<ColorFilter(Colors.red, 80)>>, remove |-> <<ColorFilter(Colors.vermilion, 20)>>],
     [keep |-> <<ColorFilter(Colors.red, 20), ColorFilter(Colors.vermilion, 80)>>, remove |-> <<>>],
     [keep |-> <<ColorFilter(Colors.orange, 80), ColorFilter(Colors.red, 80)>>,
      remove |-> <<ColorFilter(Colors.white, 5)>>],
     [keep |-> <<ColorFilter(Colors.red, 100)>>, remove |-> <<ColorFilter(Colors.yellow, 0)>>],
     [keep |-> <<>>, remove |-> <<ColorFilter(Colors.yellow, 0)>>]}

\* colour-filter rule sets, by index: 1 is the initial one
RuleSets == {1, 2}
InitialRules == 1

----------------------------------------------------------------------------
(* App: the files and the state around the editor.                         *)

\* the n-th file the user selected as field photo; large: a side is longer
\* than MAX_DIMENSION
PhotoFile(n, large) == [n |-> n, large |-> large]
\* null
NoFile == PhotoFile(0, FALSE)

\* the state of App after its first render; cadastralImage is 0 for null;
\* reading and resizing hold the files whose FileReader and Image loads of
\* handleFieldPhotoSelect and of handleResizeConfirm have not completed;
\* selected is the n of the field photo the user selected last, 0 after the
\* user removed or cancelled it
Uploading ==
    [appState |-> "UPLOADING", cadastralImage |-> 0, fieldPhoto |-> NoFile,
     pendingFieldPhoto |-> NoFile, showResizePrompt |-> FALSE,
     reading |-> {}, resizing |-> {}, selected |-> 0, nSelected |-> 0]

\* App while the editor is mounted
Editing ==
    [Uploading EXCEPT !.appState = "EDITING", !.cadastralImage = 1,
                      !.fieldPhoto = PhotoFile(1, FALSE),
                      !.selected = 1, !.nSelected = 1]

\* the handlers of App, on its state a
handleStartEditing(a) ==
    IF a.cadastralImage = 0 \/ a.fieldPhoto = NoFile THEN a
    ELSE [a EXCEPT !.appState = "EDITING"]

handleCadastralImageSelect(a, file) ==
    [a EXCEPT !.cadastralImage = file,
              !.appState = IF file # 0 THEN "CROPPING" ELSE @]

handleCropConfirm(a, file) ==
    [a EXCEPT !.cadastralImage = file, !.appState = "UPLOADING"]

handleCropCancel(a) == [a EXCEPT !.appState = "UPLOADING"]

handleReset(a) ==
    [a EXCEPT !.appState = "UPLOADING", !.cadastralImage = 0, !.fieldPhoto = NoFile]

resetResizePrompt(a) ==
    [a EXCEPT !.showResizePrompt = FALSE, !.pendingFieldPhoto = NoFile]

\* handleResizeConfirm up to reader.readAsDataURL(file)
handleResizeConfirm(a) ==
    IF a.pendingFieldPhoto = NoFile THEN a
    ELSE [a EXCEPT !.resizing = @ \cup {a.pendingFieldPhoto}]

\* the callback of canvas.toBlob in handleResizeConfirm, and its branch
\* "!ctx": the resized file, or the file itself without a blob or context
resizeSettled(a, file, blob) ==
    resetResizePrompt([a EXCEPT !.resizing = @ \ {file},
                                !.fieldPhoto = IF blob THEN PhotoFile(file.n, FALSE)
                                               ELSE file])

handleResizeDecline(a) ==
    resetResizePrompt(IF a.pendingFieldPhoto # NoFile
                      THEN [a EXCEPT !.fieldPhoto = a.pendingFieldPhoto]
                      ELSE a)

handleResizeCancel(a) == resetResizePrompt([a EXCEPT !.fieldPhoto = NoFile])

\* handleFieldPhotoSelect up to reader.readAsDataURL(file)
handleFieldPhotoSelect(a, file) ==
    IF file = NoFile THEN [a EXCEPT !.fieldPhoto = NoFile]
    ELSE [a EXCEPT !.reading = @ \cup {file}]

\* img.onload in handleFieldPhotoSelect
fieldPhotoMeasured(a, file) ==
    IF file.large
    THEN [a EXCEPT !.reading = @ \ {file}, !.pendingFieldPhoto = file,
                   !.showResizePrompt = TRUE]
    ELSE [a EXCEPT !.reading = @ \ {file}, !.fieldPhoto = file]

----------------------------------------------------------------------------
(* State.                                                                  *)

VARIABLES
    editMode,                 \* 'manual' | 'auto'
    transform,                \* 16 matrix entries, or none
    pinningStep,
    manualScale,
    isManuallyAdjusted,
    sourcePoints,             \* overlay-natural coordinates
    destPoints,               \* container coordinates
    overlayImageSize,         \* NullSize until the overlay has loaded
    containerRect,            \* NullSize until the first ResizeObserver callback
    imageRenderGeom,
    overlayPreviewGeom,
    colorFilters,
    processedOverlayUrl,
    isProcessingOverlay,
    opacity,
    draggingSourcePointIndex, \* 0 stands for null
    draggingPointIndex,       \* 0 stands for null
    isDraggingRef,            \* the destination handles whose isDraggingRef is set
    filterPasses,             \* processImageColors promises not yet settled
    photoLoads,               \* container rects captured by pending field-photo loads
    domContainer,             \* the size the container element has on the page
    overlayFile,              \* natural size of the image behind overlayImageUrl
    pointer,                  \* pointer position while a button is held on a handle
    saveWithOverlay,          \* the checkbox "Include Overlay"
    saved,                    \* the save requests so far and what the last one produced
    imageData,                \* the pixels of the canvas a filter pass works on
    app,                      \* the state of App, its pending loads and resizes
    isColorModalOpen,
    modalFilters,             \* the object in the dialog's 'filters' state, 0 when unmounted
    filterArrays,             \* what the keep and remove arrays of colorFilters hold
    nDetours

vars == <<editMode, transform, pinningStep, manualScale, isManuallyAdjusted,
          sourcePoints, destPoints, overlayImageSize, containerRect,
          imageRenderGeom, overlayPreviewGeom, colorFilters, processedOverlayUrl,
          isProcessingOverlay, opacity, draggingSourcePointIndex,
          draggingPointIndex, isDraggingRef, filterPasses, photoLoads,
          domContainer, overlayFile, pointer, saveWithOverlay, saved, imageData,
          app, isColorModalOpen, modalFilters, filterArrays, nDetours>>

\* the colour-filter dialog
dialog == <<isColorModalOpen, modalFilters, filterArrays>>

\* what neither a handler above the export controls nor the dialog writes
leaf == <<opacity, domContainer, overlayFile, saveWithOverlay, saved, imageData, app>>

\* what no handler above the export controls writes
page == <<leaf, dialog>>

\* getBoundingClientRect() of the thumbnail when the container has size dom
PreviewRect(dom) == PreviewBox(dom, overlayFile)

\* the React state of the current render, with the pending asynchronous work
Cur ==
    [editMode |-> editMode, transform |-> transform, pinningStep |-> pinningStep,
     manualScale |-> manualScale, isManuallyAdjusted |-> isManuallyAdjusted,
     sourcePoints |-> sourcePoints, destPoints |-> destPoints,
     overlayImageSize |-> overlayImageSize, containerRect |-> containerRect,
     imageRenderGeom |-> imageRenderGeom, overlayPreviewGeom |-> overlayPreviewGeom,
     colorFilters |-> colorFilters, processedOverlayUrl |-> processedOverlayUrl,
     isProcessingOverlay |-> isProcessingOverlay,
     draggingSourcePointIndex |-> draggingSourcePointIndex,
     draggingPointIndex |-> draggingPointIndex,
     filterPasses |-> filterPasses, photoLoads |-> photoLoads]

----------------------------------------------------------------------------
(* The effects of Editor.  RenderEffects(s, ch) is one render: every       *)
(* effect with a dependency in ch (the state set since the last render)    *)
(* runs on the render's state s; the state the effects set is the next     *)
(* render's ch.  A fresh array or object always counts as changed.         *)

Url(kind, rules) == [kind |-> kind, rules |-> rules]
NullUrl == Url("null", 0)
OriginalUrl == Url("original", 0)
\* the data URL processImageColors resolves with under rule set r
FilteredUrl(r) == Url("filtered", r)

OverlayCorners(size) ==
    <<Pt(Zero, Zero), Pt(size.width, Zero),
      Pt(size.width, size.height), Pt(Zero, size.height)>>

\* updatePointsForScale with the rectangle laid out from the photo rect's
\* top-left corner instead of around its centre
updatePointsForScaleFromCorner(s, scale) ==
    LET geom == s.imageRenderGeom
        overlayAspect == RDiv(s.overlayImageSize.width, s.overlayImageSize.height)
        wide == RLt(RDiv(geom.width, geom.height), overlayAspect)
        scaledWidth == IF wide THEN RMul(geom.width, scale)
                       ELSE RMul(RMul(geom.height, scale), overlayAspect)
        scaledHeight == IF wide THEN RDiv(RMul(geom.width, scale), overlayAspect)
                        ELSE RMul(geom.height, scale)
    IN  <<Pt(geom.x, geom.y),
          Pt(RAdd(geom.x, scaledWidth), geom.y),
          Pt(RAdd(geom.x, scaledWidth), RAdd(geom.y, scaledHeight)),
          Pt(geom.x, RAdd(geom.y, scaledHeight))>>

\* the destination rectangle updatePointsForScale sets; called with a
\* known overlay size and a geometry of positive width
updatePointsForScale(s, scale) ==
    LET geom == s.imageRenderGeom
        overlayAspect == RDiv(s.overlayImageSize.width, s.overlayImageSize.height)
        containerAspect == RDiv(geom.width, geom.height)
        wide == RLt(containerAspect, overlayAspect)
        scaledWidth == IF wide THEN RMul(geom.width, scale)
                       ELSE RMul(RMul(geom.height, scale), overlayAspect)
        scaledHeight == IF wide THEN RDiv(RMul(geom.width, scale), overlayAspect)
                        ELSE RMul(geom.height, scale)
        centerX == RAdd(geom.x, RDiv(geom.width, Two))
        centerY == RAdd(geom.y, RDiv(geom.height, Two))
        halfW == RDiv(scaledWidth, Two)
        halfH == RDiv(scaledHeight, Two)
    IN  <<Pt(RSub(centerX, halfW), RSub(centerY, halfH)),
          Pt(RAdd(centerX, halfW), RSub(centerY, halfH)),
          Pt(RAdd(centerX, halfW), RAdd(centerY, halfH)),
          Pt(RSub(centerX, halfW), RAdd(centerY, halfH))>>

\* effect [overlayImageUrl, colorFilters]: start a filter pass
FilterEffect(s, ch, acc) ==
    IF "colorFilters" \in ch
    THEN [acc EXCEPT !.isProcessingOverlay = TRUE,
                     !.filterPasses = Append(s.filterPasses, s.colorFilters)]
    ELSE acc

\* effect [overlayImageSize, containerRect]: measure the thumbnail, which is
\* rendered in 'auto' mode only
PreviewEffectRuns(s, ch) ==
    /\ ch \cap {"overlayImageSize", "containerRect"} # {}
    /\ s.editMode = "auto"
    /\ IsKnown(s.overlayImageSize)
PreviewEffect(s, ch, acc, dom) ==
    IF PreviewEffectRuns(s, ch)
    THEN [acc EXCEPT !.overlayPreviewGeom =
            calculateObjectContainGeometry(PreviewRect(dom).width, PreviewRect(dom).height,
                s.overlayImageSize.width, s.overlayImageSize.height)]
    ELSE acc

\* effect [fieldPhotoUrl, containerRect]: load the field photo; its onload
\* closes over this render's containerRect
PhotoEffect(s, ch, acc) ==
    IF "containerRect" \in ch
    THEN [acc EXCEPT !.photoLoads = s.photoLoads \cup {s.containerRect}]
    ELSE acc

\* the condition of the scale effect without "!isManuallyAdjusted"
ScaleEffectRunsWhenDirty(s, ch) ==
    /\ ch \cap {"editMode", "imageRenderGeom", "overlayImageSize",
                "manualScale", "isManuallyAdjusted"} # {}
    /\ s.editMode = "manual"
    /\ RLt(Zero, s.imageRenderGeom.width)
    /\ IsKnown(s.overlayImageSize)

\* effect [editMode, imageRenderGeom, overlayImageSize, manualScale,
\*         isManuallyAdjusted, updatePointsForScale]
ScaleEffectRuns(s, ch) ==
    /\ ch \cap {"editMode", "imageRenderGeom", "overlayImageSize",
                "manualScale", "isManuallyAdjusted"} # {}
    /\ s.editMode = "manual"
    /\ RLt(Zero, s.imageRenderGeom.width)
    /\ IsKnown(s.overlayImageSize)
    /\ ~s.isManuallyAdjusted
ScaleEffect(s, ch, acc) ==
    IF ScaleEffectRuns(s, ch)
    THEN [acc EXCEPT !.destPoints = updatePointsForScale(s, s.manualScale)]
    ELSE acc

\* the source effect with the dependency [editMode] only
SourceEffectRunsOnModeOnly(s, ch) ==
    /\ "editMode" \in ch
    /\ s.editMode = "manual"
    /\ IsKnown(s.overlayImageSize)

\* effect [editMode, overlayImageSize]: source points of manual mode
SourceEffectRuns(s, ch) ==
    /\ ch \cap {"editMode", "overlayImageSize"} # {}
    /\ s.editMode = "manual"
    /\ IsKnown(s.overlayImageSize)
SourceEffect(s, ch, acc) ==
    IF SourceEffectRuns(s, ch)
    THEN [acc EXCEPT !.sourcePoints = OverlayCorners(s.overlayImageSize)]
    ELSE acc

\* effect [editMode]: clear points when switching to Auto Pin mode
ClearEffectRuns(s, ch) == "editMode" \in ch /\ s.editMode = "auto"
ClearEffect(s, ch, acc) ==
    IF ClearEffectRuns(s, ch)
    THEN [acc EXCEPT !.sourcePoints = <<>>, !.destPoints = <<>>]
    ELSE acc

\* the transform effect without its else branch
TransformEffectWhenComplete(s, ch, acc) ==
    IF /\ ch \cap {"destPoints", "sourcePoints", "overlayImageSize"} # {}
       /\ Len(s.destPoints) = 4 /\ Len(s.sourcePoints) = 4
       /\ IsKnown(s.overlayImageSize)
    THEN [acc EXCEPT !.transform = getPerspectiveTransform(s.sourcePoints, s.destPoints)]
    ELSE acc

\* effect [destPoints, sourcePoints, overlayImageSize]
TransformEffect(s, ch, acc) ==
    IF ch \cap {"destPoints", "sourcePoints", "overlayImageSize"} # {}
    THEN [acc EXCEPT !.transform =
            IF Len(s.destPoints) = 4 /\ Len(s.sourcePoints) = 4
               /\ IsKnown(s.overlayImageSize)
            THEN getPerspectiveTransform(s.sourcePoints, s.destPoints)
            ELSE none]
    ELSE acc

\* what one render's effects set: the next render's changed state
SetByEffects(s, ch) ==
    (IF ScaleEffectRuns(s, ch) \/ ClearEffectRuns(s, ch) THEN {"destPoints"} ELSE {})
    \cup (IF SourceEffectRuns(s, ch) \/ ClearEffectRuns(s, ch)
          THEN {"sourcePoints"} ELSE {})
    \cup (IF PreviewEffectRuns(s, ch) THEN {"overlayPreviewGeom"} ELSE {})

RenderEffects(s, ch, dom) ==
    TransformEffect(s, ch,
      ClearEffect(s, ch,
        SourceEffect(s, ch,
          ScaleEffect(s, ch,
            PhotoEffect(s, ch,
              PreviewEffect(s, ch,
                FilterEffect(s, ch, s), dom))))))

\* render and run effects until no effect sets state any more
RECURSIVE RunEffects(_, _, _)
RunEffects(s, ch, dom) ==
    IF ch = {} THEN s
    ELSE RunEffects(RenderEffects(s, ch, dom), SetByEffects(s, ch), dom)

----------------------------------------------------------------------------
(* Event handlers of Editor: each gives the state it sets (s) and the      *)
(* names of the state that changed (ch).                                   *)

Handled(s, ch) == [s |-> s, ch |-> ch]

Changed(name, old, new) == IF old = new THEN {} ELSE {name}

handleModeChange(s, mode) ==
    Handled([s EXCEPT !.editMode = mode, !.transform = none,
                      !.pinningStep = 0, !.isManuallyAdjusted = FALSE],
            Changed("editMode", s.editMode, mode)
            \cup Changed("isManuallyAdjusted", s.isManuallyAdjusted, FALSE))

handleManualScaleChange(s, newScale) ==
    Handled([s EXCEPT !.isManuallyAdjusted = FALSE, !.manualScale = newScale],
            Changed("isManuallyAdjusted", s.isManuallyAdjusted, FALSE)
            \cup Changed("manualScale", s.manualScale, newScale))

\* onClick of "Reset Points"
resetPoints(s) ==
    Handled([s EXCEPT !.manualScale = DefaultScale, !.isManuallyAdjusted = FALSE],
            Changed("manualScale", s.manualScale, DefaultScale)
            \cup Changed("isManuallyAdjusted", s.isManuallyAdjusted, FALSE))

\* "Clear Pins" without setPinningStep(0)
clearPinsKeepStep(s) ==
    Handled([s EXCEPT !.sourcePoints = <<>>, !.destPoints = <<>>],
            {"sourcePoints", "destPoints"})

\* onClick of "Clear Pins"
clearPins(s) ==
    Handled([s EXCEPT !.sourcePoints = <<>>, !.destPoints = <<>>, !.pinningStep = 0],
            {"sourcePoints", "destPoints"})

\* currentPoints.map((point, index) => index === draggedIndex ? newPoint : point)
ReplaceAt(points, draggedIndex, newPoint) ==
    Eager([index \in 1..Len(points) |->
              IF index = draggedIndex THEN newPoint ELSE points[index]], Len(points))

handleManualPointDrag(s, newPoint, draggedIndex) ==
    Handled([s EXCEPT !.isManuallyAdjusted = TRUE,
                      !.destPoints = ReplaceAt(s.destPoints, draggedIndex, newPoint)],
            {"destPoints"} \cup Changed("isManuallyAdjusted", s.isManuallyAdjusted, TRUE))

handleAutoDestPointDrag(s, newPoint, draggedIndex) ==
    Handled([s EXCEPT !.destPoints = ReplaceAt(s.destPoints, draggedIndex, newPoint)],
            {"destPoints"})

\* the point of the overlay image under a position of the thumbnail box
ToOverlayNatural(s, clickX, clickY) ==
    LET relativeX == RSub(clickX, s.overlayPreviewGeom.x)
        relativeY == RSub(clickY, s.overlayPreviewGeom.y)
    IN  Pt(RMul(RDiv(relativeX, s.overlayPreviewGeom.width), s.overlayImageSize.width),
           RMul(RDiv(relativeY, s.overlayPreviewGeom.height), s.overlayImageSize.height))

OutsidePreviewGeom(s, clickX, clickY) ==
    \/ RLt(clickX, s.overlayPreviewGeom.x)
    \/ RLt(RAdd(s.overlayPreviewGeom.x, s.overlayPreviewGeom.width), clickX)
    \/ RLt(clickY, s.overlayPreviewGeom.y)
    \/ RLt(RAdd(s.overlayPreviewGeom.y, s.overlayPreviewGeom.height), clickY)

\* handleAutoPinClick without "if (pinningStep % 2 === 0)" on the source side
handleAutoPinClickAnyStep(s, p, target, dom) ==
    IF s.pinningStep >= StepsTotal THEN Handled(s, {})
    ELSE IF target = "source" /\ s.editMode = "auto" /\ IsKnown(s.overlayImageSize)
    THEN LET clickX == RSub(p.x, PreviewRect(dom).left)
             clickY == RSub(p.y, PreviewRect(dom).top)
         IN  IF OutsidePreviewGeom(s, clickX, clickY) THEN Handled(s, {})
             ELSE Handled([s EXCEPT
                     !.sourcePoints = Append(s.sourcePoints, ToOverlayNatural(s, clickX, clickY)),
                     !.pinningStep = s.pinningStep + 1], {"sourcePoints"})
    ELSE IF target = "dest" /\ s.pinningStep % 2 # 0
    THEN Handled([s EXCEPT !.destPoints = Append(s.destPoints, p),
                           !.pinningStep = s.pinningStep + 1], {"destPoints"})
    ELSE Handled(s, {})

\* handleAutoPinClick without "if (pinningStep >= 8) return"
handleAutoPinClickPastEight(s, p, target, dom) ==
    IF target = "source" /\ s.editMode = "auto" /\ IsKnown(s.overlayImageSize)
    THEN LET clickX == RSub(p.x, PreviewRect(dom).left)
             clickY == RSub(p.y, PreviewRect(dom).top)
         IN  IF OutsidePreviewGeom(s, clickX, clickY) THEN Handled(s, {})
             ELSE IF s.pinningStep % 2 = 0
             THEN Handled([s EXCEPT
                     !.sourcePoints = Append(s.sourcePoints, ToOverlayNatural(s, clickX, clickY)),
                     !.pinningStep = s.pinningStep + 1], {"sourcePoints"})
             ELSE Handled(s, {})
    ELSE IF target = "dest"
    THEN IF s.pinningStep % 2 # 0
         THEN Handled([s EXCEPT !.destPoints = Append(s.destPoints, p),
                                !.pinningStep = s.pinningStep + 1], {"destPoints"})
         ELSE Handled(s, {})
    ELSE Handled(s, {})

\* handleAutoPinClick without the test of the click against overlayPreviewGeom
handleAutoPinClickAnywhere(s, p, target, dom) ==
    IF s.pinningStep >= StepsTotal THEN Handled(s, {})
    ELSE IF target = "source" /\ s.editMode = "auto" /\ IsKnown(s.overlayImageSize)
    THEN LET clickX == RSub(p.x, PreviewRect(dom).left)
             clickY == RSub(p.y, PreviewRect(dom).top)
         IN  IF s.pinningStep % 2 = 0 /\ RLt(Zero, s.overlayPreviewGeom.width)
             THEN Handled([s EXCEPT
                     !.sourcePoints = Append(s.sourcePoints, ToOverlayNatural(s, clickX, clickY)),
                     !.pinningStep = s.pinningStep + 1], {"sourcePoints"})
             ELSE Handled(s, {})
    ELSE IF target = "dest"
    THEN IF s.pinningStep % 2 # 0
         THEN Handled([s EXCEPT !.destPoints = Append(s.destPoints, p),
                                !.pinningStep = s.pinningStep + 1], {"destPoints"})
         ELSE Handled(s, {})
    ELSE Handled(s, {})

\* p is the pointer in container coordinates; the thumbnail exists in 'auto'
\* mode only, so overlayPreviewRef.current is set exactly then
handleAutoPinClick(s, p, target, dom) ==
    IF s.pinningStep >= StepsTotal THEN Handled(s, {})
    ELSE IF target = "source" /\ s.editMode = "auto" /\ IsKnown(s.overlayImageSize)
    THEN LET clickX == RSub(p.x, PreviewRect(dom).left)
             clickY == RSub(p.y, PreviewRect(dom).top)
         IN  IF OutsidePreviewGeom(s, clickX, clickY) THEN Handled(s, {})
             ELSE IF s.pinningStep % 2 = 0
             THEN Handled([s EXCEPT
                     !.sourcePoints = Append(s.sourcePoints, ToOverlayNatural(s, clickX, clickY)),
                     !.pinningStep = s.pinningStep + 1], {"sourcePoints"})
             ELSE Handled(s, {})
    ELSE IF target = "dest"
    THEN IF s.pinningStep % 2 # 0
         THEN Handled([s EXCEPT !.destPoints = Append(s.destPoints, p),
                                !.pinningStep = s.pinningStep + 1], {"destPoints"})
         ELSE Handled(s, {})
    ELSE Handled(s, {})

\* what a save request produced: the file handed to the browser's download
\* ("none", "original" for landviewer-original.jpeg, "result" for
\* landviewer-result.jpeg), whether an alert was shown, and the EXIF block
\* inserted into the file (0: none); n counts the requests
Outcome(file, alert, exif) == [file |-> file, alert |-> alert, exif |-> exif]
Aborted == Outcome("none", TRUE, 0)
NoSave == [n |-> 0, out |-> Outcome("none", FALSE, 0)]

\* what the page gives a save request: the EXIF block getExifFromFile
\* resolves with (0: null, for an unreadable file, a parse error or empty
\* EXIF), whether bgImage loads, whether getContext('2d') gives a context,
\* whether the SVG image loads, and whether the canvas is encoded (toDataURL
\* and piexif.insert return, toBlob gives a blob); at most one of the four
\* resources fails in a request
SaveEnvs ==
    {env \in [exif : {0, 1, 2}, bg : BOOLEAN, ctx : BOOLEAN,
              svg : BOOLEAN, encode : BOOLEAN] :
        Cardinality({f \in {"bg", "ctx", "svg", "encode"} : ~env[f]}) <= 1}

\* finalDestPoints without the multiplication by scale
finalDestPointsUnscaled(s) ==
    LET geom == s.imageRenderGeom
    IN  Eager([i \in 1..Len(s.destPoints) |->
                  Pt(RSub(s.destPoints[i].x, geom.x),
                     RSub(s.destPoints[i].y, geom.y))], Len(s.destPoints))

\* finalDestPoints without the subtraction of the photo rect's offset
finalDestPointsNoOffset(s) ==
    LET geom == s.imageRenderGeom
        scale == RDiv(PhotoNatural.width, geom.width)
    IN  Eager([i \in 1..Len(s.destPoints) |->
                  Pt(RMul(s.destPoints[i].x, scale),
                     RMul(s.destPoints[i].y, scale))], Len(s.destPoints))

\* destPoints.map(p => ({x: (p.x - imageRenderGeom.x) * scale, ...})) with
\* scale = bgImage.naturalWidth / imageRenderGeom.width, for a width above 0
finalDestPoints(s) ==
    LET geom == s.imageRenderGeom
        scale == RDiv(PhotoNatural.width, geom.width)
    IN  Eager([i \in 1..Len(s.destPoints) |->
                  Pt(RMul(RSub(s.destPoints[i].x, geom.x), scale),
                     RMul(RSub(s.destPoints[i].y, geom.y), scale))], Len(s.destPoints))

\* all points of pts lie on one line
AllCollinear(pts) ==
    \A i, j, k \in 1..Len(pts) :
        RMul(RSub(pts[j].x, pts[i].x), RSub(pts[k].y, pts[i].y))
            = RMul(RSub(pts[j].y, pts[i].y), RSub(pts[k].x, pts[i].x))

\* a matrix3d(...) string of numbers that are not finite
NonFinite == <<"NaN">>

\* getPerspectiveTransform(sourcePoints, finalDestPoints).  With
\* imageRenderGeom.width = 0 the scale is Infinity and every remapped
\* coordinate is Infinity or NaN: columns 7 and 8 of the system and its right
\* side are not finite, so no pivot there is below 1e-9 in absolute value,
\* and the solver returns null only when a pivot of columns 1..6, which hold
\* the source coordinates alone, fails.
finalTransform(s) ==
    IF s.imageRenderGeom.width = Zero
    THEN IF Len(s.sourcePoints) # 4 \/ Len(s.destPoints) # 4 THEN none
         ELSE IF AllCollinear(s.sourcePoints) THEN none
         ELSE NonFinite
    ELSE getPerspectiveTransform(s.sourcePoints, finalDestPoints(s))

\* handleSave without the test of finalTransform against 'none'
handleSaveAnyTransform(s, include, env) ==
    IF ~env.bg THEN Aborted
    ELSE IF ~env.ctx \/ ~IsKnown(s.overlayImageSize) THEN Aborted
    ELSE IF ~include
    THEN IF env.exif # 0
         THEN IF env.encode THEN Outcome("original", FALSE, env.exif)
              ELSE Outcome("none", FALSE, 0)
         ELSE IF env.encode THEN Outcome("original", FALSE, 0) ELSE Aborted
    ELSE IF s.processedOverlayUrl = NullUrl THEN Aborted
    ELSE IF Len(s.destPoints) < 4 \/ Len(s.sourcePoints) < 4 THEN Aborted
    ELSE IF ~env.svg THEN Aborted
    ELSE IF env.encode THEN Outcome("result", FALSE, env.exif)
    ELSE Aborted

\* handleSave with a request that ends when getExifFromFile gives null
handleSaveExifRequired(s, include, env) ==
    IF env.exif = 0 THEN Outcome("none", FALSE, 0)
    ELSE IF ~env.bg THEN Aborted
    ELSE IF ~env.ctx \/ ~IsKnown(s.overlayImageSize) THEN Aborted
    ELSE IF ~include
    THEN IF env.encode THEN Outcome("original", FALSE, env.exif)
         ELSE Outcome("none", FALSE, 0)
    ELSE IF s.processedOverlayUrl = NullUrl THEN Aborted
    ELSE IF Len(s.destPoints) < 4 \/ Len(s.sourcePoints) < 4 THEN Aborted
    ELSE IF finalTransform(s) = none THEN Aborted
    ELSE IF ~env.svg THEN Aborted
    ELSE IF env.encode THEN Outcome("result", FALSE, env.exif)
    ELSE Aborted

\* handleSave, from the state of the render whose button was pressed (s and
\* include = saveWithOverlay) to what the request produces.  In the branch
\* "!saveWithOverlay" an exception of toDataURL or piexif.insert is caught by
\* nothing; in svgImage.onload it is caught and alerted.
handleSave(s, include, env) ==
    IF ~env.bg THEN Aborted
    ELSE IF ~env.ctx \/ ~IsKnown(s.overlayImageSize) THEN Aborted
    ELSE IF ~include
    THEN IF env.exif # 0
         THEN IF env.encode THEN Outcome("original", FALSE, env.exif)
              ELSE Outcome("none", FALSE, 0)
         ELSE IF env.encode THEN Outcome("original", FALSE, 0) ELSE Aborted
    ELSE IF s.processedOverlayUrl = NullUrl THEN Aborted
    ELSE IF Len(s.destPoints) < 4 \/ Len(s.sourcePoints) < 4 THEN Aborted
    ELSE IF finalTransform(s) = none THEN Aborted
    ELSE IF ~env.svg THEN Aborted
    ELSE IF env.encode THEN Outcome("result", FALSE, env.exif)
    ELSE Aborted

\* inThumb: the click's target is the thumbnail or inside it
handleContainerClick(s, p, inThumb, dom) ==
    IF s.editMode # "auto" \/ s.pinningStep % 2 = 0 \/ s.pinningStep >= StepsTotal
    THEN Handled(s, {})
    ELSE IF s.editMode = "auto" /\ inThumb THEN Handled(s, {})
    ELSE handleAutoPinClick(s, p, "dest", dom)

\* the handler React calls for a click whose target is the element under p:
\* the thumbnail's onClick (which stops propagation) or the container's
DispatchClick(s, p, onThumb, dom) ==
    IF onThumb THEN handleAutoPinClick(s, p, "source", dom)
    ELSE handleContainerClick(s, p, FALSE, dom)

\* the thumbnail is the element under p: it is rendered, p is inside its box
\* and the "Processing colors..." layer (inset-0, z-30) does not cover it
ThumbUnder(s, p, dom) ==
    /\ s.editMode = "auto"
    /\ ~s.isProcessingOverlay
    /\ InBox(p, PreviewRect(dom))

\* the 'mousemove' listener of the source-point drag without the clamp to
\* the rect of the displayed overlay image
sourceHandleMouseMoveUnclamped(s, p, dom) ==
    IF s.draggingSourcePointIndex = 0 \/ s.editMode # "auto"
       \/ ~IsKnown(s.overlayImageSize)
    THEN Handled(s, {})
    ELSE Handled([s EXCEPT !.sourcePoints =
                    ReplaceAt(s.sourcePoints, s.draggingSourcePointIndex,
                              ToOverlayNatural(s, RSub(p.x, PreviewRect(dom).left),
                                               RSub(p.y, PreviewRect(dom).top)))],
                 {"sourcePoints"})

\* window 'mousemove' listener of the source-point drag effect
sourceHandleMouseMove(s, p, dom) ==
    IF s.draggingSourcePointIndex = 0 \/ s.editMode # "auto"
       \/ ~IsKnown(s.overlayImageSize)
    THEN Handled(s, {})
    ELSE LET g == s.overlayPreviewGeom
             clickX == RMax(g.x, RMin(RSub(p.x, PreviewRect(dom).left), RAdd(g.x, g.width)))
             clickY == RMax(g.y, RMin(RSub(p.y, PreviewRect(dom).top), RAdd(g.y, g.height)))
         IN  Handled([s EXCEPT !.sourcePoints =
                        ReplaceAt(s.sourcePoints, s.draggingSourcePointIndex,
                                  ToOverlayNatural(s, clickX, clickY))],
                     {"sourcePoints"})

\* window 'mousemove' listener of the DraggablePoint at index i, whose onDrag
\* is the drag handler of the current mode
pointHandleMouseMove(s, p, i) ==
    IF ~IsKnown(s.containerRect) THEN Handled(s, {})
    ELSE IF s.editMode = "manual" THEN handleManualPointDrag(s, p, i)
    ELSE handleAutoDestPointDrag(s, p, i)

\* every DraggablePoint listener with its isDraggingRef set, in index order
RECURSIVE PointListeners(_, _, _, _)
PointListeners(h, p, held, i) ==
    IF i > 4 THEN h
    ELSE IF i \in held
    THEN LET n == pointHandleMouseMove(h.s, p, i)
         IN  PointListeners(Handled(n.s, h.ch \cup n.ch), p, held, i + 1)
    ELSE PointListeners(h, p, held, i + 1)

----------------------------------------------------------------------------
(* Actions: one per event the editor handles.                              *)

\* no button is held on a handle
NoPointer == IPt(-1, -1)
InitialContainer == Size(RInt(16), RInt(8))

\* a DraggablePoint (key dest-i / dest-pin-i) keeps its ref while it stays mounted
KeptRefs(s2) ==
    IF s2.editMode # editMode THEN {}
    ELSE {i \in isDraggingRef : i <= Len(s2.destPoints)}

Commit(s2) ==
    /\ editMode' = s2.editMode
    /\ transform' = s2.transform
    /\ pinningStep' = s2.pinningStep
    /\ manualScale' = s2.manualScale
    /\ isManuallyAdjusted' = s2.isManuallyAdjusted
    /\ sourcePoints' = s2.sourcePoints
    /\ destPoints' = s2.destPoints
    /\ overlayImageSize' = s2.overlayImageSize
    /\ containerRect' = s2.containerRect
    /\ imageRenderGeom' = s2.imageRenderGeom
    /\ overlayPreviewGeom' = s2.overlayPreviewGeom
    /\ colorFilters' = s2.colorFilters
    /\ processedOverlayUrl' = s2.processedOverlayUrl
    /\ isProcessingOverlay' = s2.isProcessingOverlay
    /\ draggingSourcePointIndex' = s2.draggingSourcePointIndex
    /\ draggingPointIndex' = s2.draggingPointIndex
    /\ filterPasses' = s2.filterPasses
    /\ photoLoads' = s2.photoLoads

\* the handler's state, rendered and followed by all effects
After(h) == RunEffects(h.s, h.ch, domContainer)

\* the editor's own state after its first render and the effects of the
\* mount
EditorMounted ==
    /\ editMode = "manual"
    /\ transform = none
    /\ pinningStep = 0
    /\ manualScale = DefaultScale
    /\ isManuallyAdjusted = FALSE
    /\ sourcePoints = <<>>
    /\ destPoints = <<>>
    /\ overlayImageSize = NullSize
    /\ containerRect = NullSize
    /\ imageRenderGeom = ZeroGeom
    /\ overlayPreviewGeom = ZeroGeom
    /\ colorFilters = InitialRules
    /\ processedOverlayUrl = NullUrl
    /\ isProcessingOverlay = TRUE
    /\ opacity = Rat(7, 10)
    /\ draggingSourcePointIndex = 0
    /\ draggingPointIndex = 0
    /\ isDraggingRef = {}
    /\ filterPasses = <<InitialRules>>
    /\ photoLoads = {NullSize}
    /\ domContainer = InitialContainer
    /\ pointer = NoPointer
    /\ saveWithOverlay = TRUE
    /\ saved = NoSave
    /\ imageData = <<>>
    /\ isColorModalOpen = FALSE
    /\ modalFilters = 0
    /\ filterArrays = InitialFilters
    /\ nDetours = 0

\* the editor mounted by App in the EDITING state
Mounted == EditorMounted /\ app = Editing

Init == Mounted /\ overlayFile = OverlayNatural

\* img.onload of the overlay-dimension effect
OverlayImageLoaded ==
    /\ ~IsKnown(overlayImageSize)
    /\ LET s2 == After(Handled([Cur EXCEPT !.overlayImageSize = overlayFile],
                                {"overlayImageSize"}))
       IN  Commit(s2) /\ isDraggingRef' = KeptRefs(s2)
    /\ UNCHANGED <<page, pointer, nDetours>>

\* the layout gives the container another size
WindowResized ==
    \E sz \in ContainerSizes :
        /\ sz # domContainer
        /\ nDetours < MaxDetours
        /\ nDetours' = nDetours + 1
        /\ domContainer' = sz
        /\ UNCHANGED <<editMode, transform, pinningStep, manualScale, isManuallyAdjusted,
                       sourcePoints, destPoints, overlayImageSize, containerRect,
                       imageRenderGeom, overlayPreviewGeom, colorFilters,
                       processedOverlayUrl, isProcessingOverlay, opacity,
                       draggingSourcePointIndex, draggingPointIndex, isDraggingRef,
                       filterPasses, photoLoads, overlayFile, pointer,
                       saveWithOverlay, saved, imageData, app, dialog>>

\* the ResizeObserver callback: setContainerRect(getBoundingClientRect())
ResizeObserved ==
    /\ LET s2 == After(Handled([Cur EXCEPT !.containerRect = domContainer],
                                {"containerRect"}))
       IN  Commit(s2) /\ isDraggingRef' = KeptRefs(s2)
    /\ UNCHANGED <<page, pointer, nDetours>>

\* img.onload of a field-photo load that captured container rect r
FieldPhotoLoaded ==
    \E r \in photoLoads :
        /\ LET s1 == [Cur EXCEPT !.photoLoads = photoLoads \ {r}]
               s2 == IF ~IsKnown(r) THEN s1
                     ELSE After(Handled(
                            [s1 EXCEPT !.imageRenderGeom =
                                calculateObjectContainGeometry(r.width, r.height,
                                    PhotoNatural.width, PhotoNatural.height)],
                            {"imageRenderGeom"}))
           IN  Commit(s2) /\ isDraggingRef' = KeptRefs(s2)
        /\ UNCHANGED <<page, pointer, nDetours>>

RemoveAt(seq, k) == SubSeq(seq, 1, k - 1) \o SubSeq(seq, k + 1, Len(seq))

\* the processImageColors promise started k-th among the pending ones
\* settles with url: .then or .catch, then .finally
FilterPassSettled(k, url) ==
    /\ Commit([Cur EXCEPT !.filterPasses = RemoveAt(filterPasses, k),
                          !.processedOverlayUrl = url,
                          !.isProcessingOverlay = FALSE])
    /\ UNCHANGED <<page, isDraggingRef, pointer, nDetours>>

FilterPassResolved ==
    \E k \in 1..Len(filterPasses) : FilterPassSettled(k, FilteredUrl(filterPasses[k]))

FilterPassRejected ==
    \E k \in 1..Len(filterPasses) : FilterPassSettled(k, OriginalUrl)

\* onApply of the colour-filter dialog
ApplyFilters ==
    \E r \in RuleSets :
        /\ pointer = NoPointer
        /\ nDetours < MaxDetours
        /\ nDetours' = nDetours + 1
        /\ Commit(After(Handled([Cur EXCEPT !.colorFilters = r], {"colorFilters"})))
        /\ UNCHANGED <<page, isDraggingRef, pointer>>

\* ColorFilterModal.  Its 'filters' state starts as the object passed as
\* initialFilters, the editor's colorFilters; each handler copies the object
\* ({ ...filters }), not its arrays, and writes into the copy's array, which
\* is the array of every such object and of colorFilters.
handleUpdate(arrays, type, index, updatedFilter) ==
    [arrays EXCEPT ![type][index] = updatedFilter]
handleRemove(arrays, type, index) ==
    [arrays EXCEPT ![type] = RemoveAt(@, index)]
defaultNewColor == ColorFilter(Colors.black, 50)
handleAdd(arrays, type) ==
    [arrays EXCEPT ![type] = Append(@, defaultNewColor)]

\* what the colour input and the tolerance slider of a row give for filter
RowEdits(filter) ==
    {[filter EXCEPT !.color = Colors.black], [filter EXCEPT !.tolerance = 100]}

\* a press of "Color Filters": the dialog mounts
OpenDialog ==
    /\ ~isColorModalOpen /\ pointer = NoPointer
    /\ isColorModalOpen' = TRUE
    /\ modalFilters' = colorFilters
    /\ Commit(Cur)
    /\ UNCHANGED <<filterArrays, leaf, isDraggingRef, pointer, nDetours>>

\* setFilters(newFilters) with the arrays as the handler left them: the
\* copy is an object of its own, numbered after the one it was copied from
DialogEdited(arrays) ==
    /\ isColorModalOpen
    /\ nDetours < MaxDetours
    /\ nDetours' = nDetours + 1
    /\ filterArrays' = arrays
    /\ modalFilters' = modalFilters + 1
    /\ Commit(Cur)
    /\ UNCHANGED <<isColorModalOpen, leaf, isDraggingRef, pointer>>

DialogUpdate ==
    \E type \in {"keep", "remove"} :
        \E index \in 1..Len(filterArrays[type]) :
            \E updatedFilter \in RowEdits(filterArrays[type][index]) :
                DialogEdited(handleUpdate(filterArrays, type, index, updatedFilter))

DialogRemove ==
    \E type \in {"keep", "remove"} :
        \E index \in 1..Len(filterArrays[type]) :
            DialogEdited(handleRemove(filterArrays, type, index))

DialogAdd ==
    \E type \in {"keep", "remove"} : DialogEdited(handleAdd(filterArrays, type))

\* "Cancel": onClose unmounts the dialog
DialogCancel ==
    /\ isColorModalOpen
    /\ isColorModalOpen' = FALSE
    /\ modalFilters' = 0
    /\ Commit(Cur)
    /\ UNCHANGED <<filterArrays, leaf, isDraggingRef, pointer, nDetours>>

\* "Apply Filters": onApply(filters) sets colorFilters to the dialog's
\* object, which is a state change unless it is the object colorFilters is
DialogApply ==
    /\ isColorModalOpen
    /\ isColorModalOpen' = FALSE
    /\ modalFilters' = 0
    /\ Commit(After(Handled([Cur EXCEPT !.colorFilters = modalFilters],
                            Changed("colorFilters", colorFilters, modalFilters))))
    /\ UNCHANGED <<filterArrays, leaf, isDraggingRef, pointer, nDetours>>

UserStep(h) ==
    /\ LET s2 == After(h) IN Commit(s2) /\ isDraggingRef' = KeptRefs(s2)
    /\ UNCHANGED <<page, pointer>>

\* a press of the button "Manual Adjust" or "Auto Pin"
ModeButtonOn(mode) ==
    /\ pointer = NoPointer
    /\ nDetours < MaxDetours
    /\ nDetours' = nDetours + 1
    /\ UserStep(handleModeChange(Cur, mode))

ModeButton == \E mode \in {"manual", "auto"} : ModeButtonOn(mode)

ClearPinsButton ==
    /\ pointer = NoPointer /\ editMode = "auto"
    /\ UserStep(clearPins(Cur)) /\ UNCHANGED nDetours

ScaleSlider ==
    \E v \in ScaleChoices :
        /\ pointer = NoPointer /\ editMode = "manual" /\ v # manualScale
        /\ UserStep(handleManualScaleChange(Cur, v)) /\ UNCHANGED nDetours

ResetPointsButton ==
    /\ pointer = NoPointer /\ editMode = "manual"
    /\ UserStep(resetPoints(Cur)) /\ UNCHANGED nDetours

\* a click on the surface under p: the thumbnail or the main container
ClickOn(p) ==
    /\ pointer = NoPointer
    /\ UserStep(DispatchClick(Cur, p, ThumbUnder(Cur, p, domContainer), domContainer))
    /\ UNCHANGED nDetours

Click == \E p \in ClickPositions(pinningStep) : ClickOn(p)

\* where the handle of source point i is drawn, in container coordinates
SourceHandleAt(s, i, dom) ==
    LET g == s.overlayPreviewGeom
        q == s.sourcePoints[i]
    IN  Pt(RAdd(PreviewRect(dom).left,
                RAdd(g.x, RMul(RDiv(q.x, s.overlayImageSize.width), g.width))),
           RAdd(PreviewRect(dom).top,
                RAdd(g.y, RMul(RDiv(q.y, s.overlayImageSize.height), g.height))))

\* handleSourcePointMouseDown without "if (pinningStep % 2 !== 0) return"
SourceMouseDownAnyStep ==
    \E i \in 1..Len(sourcePoints) :
        /\ pointer = NoPointer
        /\ nDetours < MaxDetours
        /\ editMode = "auto" /\ ~isProcessingOverlay /\ IsKnown(overlayImageSize)
        /\ nDetours' = nDetours + 1
        /\ draggingSourcePointIndex' = i
        /\ pointer' = SourceHandleAt(Cur, i, domContainer)
        /\ UNCHANGED <<editMode, transform, pinningStep, manualScale, isManuallyAdjusted,
                       sourcePoints, destPoints, overlayImageSize, containerRect,
                       imageRenderGeom, overlayPreviewGeom, colorFilters,
                       processedOverlayUrl, isProcessingOverlay, page,
                       draggingPointIndex, isDraggingRef, filterPasses, photoLoads>>

\* handleSourcePointMouseDown on the handle of source point i
SourceMouseDown ==
    \E i \in 1..Len(sourcePoints) :
        /\ pointer = NoPointer
        /\ nDetours < MaxDetours
        /\ editMode = "auto" /\ ~isProcessingOverlay /\ IsKnown(overlayImageSize)
        /\ pinningStep % 2 = 0
        /\ nDetours' = nDetours + 1
        /\ draggingSourcePointIndex' = i
        /\ pointer' = SourceHandleAt(Cur, i, domContainer)
        /\ UNCHANGED <<editMode, transform, pinningStep, manualScale, isManuallyAdjusted,
                       sourcePoints, destPoints, overlayImageSize, containerRect,
                       imageRenderGeom, overlayPreviewGeom, colorFilters,
                       processedOverlayUrl, isProcessingOverlay, page,
                       draggingPointIndex, isDraggingRef, filterPasses, photoLoads>>

\* handleMouseDown of the DraggablePoint at index i
DestMouseDown ==
    \E i \in 1..Len(destPoints) :
        /\ pointer = NoPointer
        /\ nDetours < MaxDetours
        /\ ~isProcessingOverlay
        /\ nDetours' = nDetours + 1
        /\ isDraggingRef' = isDraggingRef \cup {i}
        /\ draggingPointIndex' = i
        /\ pointer' = destPoints[i]
        /\ UNCHANGED <<editMode, transform, pinningStep, manualScale, isManuallyAdjusted,
                       sourcePoints, destPoints, overlayImageSize, containerRect,
                       imageRenderGeom, overlayPreviewGeom, colorFilters,
                       processedOverlayUrl, isProcessingOverlay, page,
                       draggingSourcePointIndex, filterPasses, photoLoads>>

\* a 'mousemove' on window to p while a button is held: every listener runs
MouseMoveTo(p) ==
    /\ pointer # NoPointer
    /\ p # pointer
    /\ pointer' = p
    /\ LET s2 == After(PointListeners(sourceHandleMouseMove(Cur, p, domContainer),
                                      p, isDraggingRef, 1))
       IN  Commit(s2) /\ isDraggingRef' = KeptRefs(s2)
    /\ UNCHANGED <<page, nDetours>>

MouseMove == \E p \in MovePositions : MouseMoveTo(p)

\* a drag that passes over the handles of destination points 2 and 3
MouseMoveOverHandles == \E p \in {DestAim[2], DestAim[3], IPt(8, 4)} : MouseMoveTo(p)

\* handleMouseDown of the DraggablePoint at index j while a button is already
\* held on a handle: a further button goes down on the topmost handle under
\* the pointer (of handles at one place the later sibling is painted on top)
SecondMouseDown ==
    \E j \in 1..Len(destPoints) :
        /\ pointer # NoPointer
        /\ nDetours < MaxDetours
        /\ ~isProcessingOverlay
        /\ ~ThumbUnder(Cur, pointer, domContainer)
        /\ destPoints[j] = pointer
        /\ \A i \in 1..Len(destPoints) : destPoints[i] = pointer => i <= j
        /\ j \notin isDraggingRef
        /\ nDetours' = nDetours + 1
        /\ isDraggingRef' = isDraggingRef \cup {j}
        /\ draggingPointIndex' = j
        /\ UNCHANGED <<editMode, transform, pinningStep, manualScale, isManuallyAdjusted,
                       sourcePoints, destPoints, overlayImageSize, containerRect,
                       imageRenderGeom, overlayPreviewGeom, colorFilters,
                       processedOverlayUrl, isProcessingOverlay, page,
                       draggingSourcePointIndex, filterPasses, photoLoads, pointer>>

\* a 'mouseup' on window: every listener runs; then the browser dispatches
\* the click of the press-and-release, whose target is the common ancestor
\* of the pressed handle and the element under the pointer
MouseUp ==
    /\ pointer # NoPointer
    /\ pointer' = NoPointer
    /\ LET s1 == [Cur EXCEPT !.draggingSourcePointIndex = 0,
                             !.draggingPointIndex =
                                 IF isDraggingRef = {} THEN draggingPointIndex ELSE 0]
           onThumb == draggingSourcePointIndex # 0
                      /\ ThumbUnder(s1, pointer, domContainer)
           s2 == After(DispatchClick(s1, pointer, onThumb, domContainer))
       IN  Commit(s2) /\ isDraggingRef' = {}
    /\ UNCHANGED <<page, nDetours>>

\* the editor on a page whose layout does not change
Next ==
    \/ OverlayImageLoaded
    \/ ResizeObserved
    \/ FieldPhotoLoaded
    \/ FilterPassResolved
    \/ ModeButton
    \/ ClearPinsButton
    \/ ScaleSlider
    \/ ResetPointsButton
    \/ Click
    \/ SourceMouseDown
    \/ DestMouseDown
    \/ MouseMove
    \/ MouseUp

Spec == Init /\ [][Next]_vars

\* Manual Adjust on a page whose container changes size, for either overlay
InitLayout == Mounted /\ overlayFile \in OverlayFiles

NextLayout ==
    \/ OverlayImageLoaded
    \/ WindowResized
    \/ ResizeObserved
    \/ FieldPhotoLoaded
    \/ FilterPassResolved
    \/ ScaleSlider
    \/ ResetPointsButton
    \/ DestMouseDown
    \/ MouseMove
    \/ MouseUp

SpecLayout == InitLayout /\ [][NextLayout]_vars

\* the colour-filter passes of the editor
NextFilter ==
    \/ OverlayImageLoaded
    \/ ResizeObserved
    \/ FieldPhotoLoaded
    \/ ApplyFilters
    \/ FilterPassResolved
    \/ FilterPassRejected

SpecFilter == Init /\ [][NextFilter]_vars

\* onChange of the checkbox "Include Overlay"
IncludeOverlayToggle ==
    /\ pointer = NoPointer
    /\ saveWithOverlay' = ~saveWithOverlay
    /\ UNCHANGED <<editMode, transform, pinningStep, manualScale, isManuallyAdjusted,
                   sourcePoints, destPoints, overlayImageSize, containerRect,
                   imageRenderGeom, overlayPreviewGeom, colorFilters,
                   processedOverlayUrl, isProcessingOverlay, opacity,
                   draggingSourcePointIndex, draggingPointIndex, isDraggingRef,
                   filterPasses, photoLoads, domContainer, overlayFile, pointer,
                   saved, imageData, app, dialog, nDetours>>

\* a press of "Save Image" (disabled while destPoints.length < 4) on a page
\* that gives the request env
SaveRequest(env) ==
    /\ pointer = NoPointer
    /\ Len(destPoints) >= 4
    /\ nDetours < MaxDetours
    /\ nDetours' = nDetours + 1
    /\ saved' = [n |-> saved.n + 1, out |-> handleSave(Cur, saveWithOverlay, env)]
    /\ UNCHANGED <<editMode, transform, pinningStep, manualScale, isManuallyAdjusted,
                   sourcePoints, destPoints, overlayImageSize, containerRect,
                   imageRenderGeom, overlayPreviewGeom, colorFilters,
                   processedOverlayUrl, isProcessingOverlay, opacity,
                   draggingSourcePointIndex, draggingPointIndex, isDraggingRef,
                   filterPasses, photoLoads, domContainer, overlayFile, pointer,
                   saveWithOverlay, imageData, app, dialog>>

SaveButton == \E env \in SaveEnvs : SaveRequest(env)

\* Manual Adjust and the export
NextSave ==
    \/ OverlayImageLoaded
    \/ ResizeObserved
    \/ FieldPhotoLoaded
    \/ FilterPassResolved
    \/ DestMouseDown
    \/ MouseMoveOverHandles
    \/ MouseUp
    \/ IncludeOverlayToggle
    \/ SaveButton

SpecSave == Init /\ [][NextSave]_vars

\* Manual Adjust, the colour-filter dialog and the export
NextFilterSave ==
    \/ OverlayImageLoaded
    \/ ResizeObserved
    \/ FieldPhotoLoaded
    \/ ApplyFilters
    \/ FilterPassResolved
    \/ IncludeOverlayToggle
    \/ SaveButton

SpecFilterSave == Init /\ [][NextFilterSave]_vars

\* App by itself: the editor's state stays as at its mount
editor == <<editMode, transform, pinningStep, manualScale, isManuallyAdjusted,
            sourcePoints, destPoints, overlayImageSize, containerRect,
            imageRenderGeom, overlayPreviewGeom, colorFilters, processedOverlayUrl,
            isProcessingOverlay, opacity, draggingSourcePointIndex,
            draggingPointIndex, isDraggingRef, filterPasses, photoLoads,
            domContainer, overlayFile, pointer, saveWithOverlay, saved, imageData,
            dialog>>

InitApp == EditorMounted /\ app = Uploading /\ overlayFile = OverlayNatural

\* the upload screen is shown and the resize prompt does not cover it
UploadScreen == app.appState = "UPLOADING" /\ ~app.showResizePrompt

\* a file is chosen or dropped on the cadastral uploader, whose drop zone is
\* hidden while it shows a preview
CadastralSelected ==
    /\ UploadScreen /\ app.cadastralImage = 0
    /\ app' = handleCadastralImageSelect(app, 1)
    /\ UNCHANGED <<editor, nDetours>>

\* the remove button of the cadastral uploader's preview
CadastralRemoved ==
    /\ UploadScreen /\ app.cadastralImage # 0
    /\ app' = handleCadastralImageSelect(app, 0)
    /\ UNCHANGED <<editor, nDetours>>

\* handlePaste with an image on the clipboard
ImagePasted ==
    /\ app.appState = "UPLOADING"
    /\ app' = [app EXCEPT !.cadastralImage = 1, !.appState = "CROPPING"]
    /\ UNCHANGED <<editor, nDetours>>

CropConfirmed ==
    /\ app.appState = "CROPPING" /\ ~app.showResizePrompt
    /\ app' = handleCropConfirm(app, 1)
    /\ UNCHANGED <<editor, nDetours>>

CropCancelled ==
    /\ app.appState = "CROPPING" /\ ~app.showResizePrompt
    /\ app' = handleCropCancel(app)
    /\ UNCHANGED <<editor, nDetours>>

\* a file is chosen or dropped on the field-photo uploader, whose drop zone
\* is hidden while it shows a preview
FieldPhotoSelected ==
    \E large \in BOOLEAN :
        /\ UploadScreen /\ app.fieldPhoto = NoFile
        /\ nDetours < MaxDetours
        /\ nDetours' = nDetours + 1
        /\ app' = [handleFieldPhotoSelect(app, PhotoFile(app.nSelected + 1, large))
                      EXCEPT !.selected = app.nSelected + 1,
                             !.nSelected = app.nSelected + 1]
        /\ UNCHANGED editor

\* the remove button of the field-photo uploader's preview
FieldPhotoRemoved ==
    /\ UploadScreen /\ app.fieldPhoto # NoFile
    /\ app' = [handleFieldPhotoSelect(app, NoFile) EXCEPT !.selected = 0]
    /\ UNCHANGED <<editor, nDetours>>

\* the load of a selected file completes; loads complete in any order
FieldPhotoMeasured ==
    \E file \in app.reading :
        /\ app' = fieldPhotoMeasured(app, file)
        /\ UNCHANGED <<editor, nDetours>>

\* "Resize (Recommended)"; the prompt stays until the resize has settled
ResizeConfirm ==
    /\ app.showResizePrompt
    /\ app' = [handleResizeConfirm(app) EXCEPT
                  !.selected = IF app.pendingFieldPhoto = NoFile THEN @
                               ELSE app.pendingFieldPhoto.n]
    /\ UNCHANGED <<editor, nDetours>>

ResizeSettled ==
    \E file \in app.resizing, blob \in BOOLEAN :
        /\ app' = resizeSettled(app, file, blob)
        /\ UNCHANGED <<editor, nDetours>>

\* "Upload Original"
ResizeDecline ==
    /\ app.showResizePrompt
    /\ app' = [handleResizeDecline(app) EXCEPT
                  !.selected = IF app.pendingFieldPhoto = NoFile THEN @
                               ELSE app.pendingFieldPhoto.n]
    /\ UNCHANGED <<editor, nDetours>>

\* "Cancel" of the resize prompt
ResizeCancel ==
    /\ app.showResizePrompt
    /\ app' = [handleResizeCancel(app) EXCEPT !.selected = 0]
    /\ UNCHANGED <<editor, nDetours>>

\* "Start Editing", disabled without both images
StartEditing ==
    /\ UploadScreen /\ app.cadastralImage # 0 /\ app.fieldPhoto # NoFile
    /\ app' = handleStartEditing(app)
    /\ UNCHANGED <<editor, nDetours>>

\* "Start Over" of the header, rendered in the EDITING state
StartOver ==
    /\ app.appState = "EDITING" /\ ~app.showResizePrompt
    /\ app' = [handleReset(app) EXCEPT !.selected = 0]
    /\ UNCHANGED <<editor, nDetours>>

NextApp ==
    \/ CadastralSelected
    \/ CadastralRemoved
    \/ ImagePasted
    \/ CropConfirmed
    \/ CropCancelled
    \/ FieldPhotoSelected
    \/ FieldPhotoRemoved
    \/ FieldPhotoMeasured
    \/ ResizeConfirm
    \/ ResizeSettled
    \/ ResizeDecline
    \/ ResizeCancel
    \/ StartEditing
    \/ StartOver

SpecApp == InitApp /\ [][NextApp]_vars

\* Manual Adjust and the colour-filter dialog
NextDialog ==
    \/ OverlayImageLoaded
    \/ FilterPassResolved
    \/ OpenDialog
    \/ DialogUpdate
    \/ DialogRemove
    \/ DialogAdd
    \/ DialogCancel
    \/ DialogApply

SpecDialog == Init /\ [][NextDialog]_vars

\* Manual Adjust with a mouse of several buttons
NextButtons ==
    \/ OverlayImageLoaded
    \/ ResizeObserved
    \/ FieldPhotoLoaded
    \/ FilterPassResolved
    \/ DestMouseDown
    \/ SecondMouseDown
    \/ MouseMoveOverHandles
    \/ MouseUp

SpecButtons == Init /\ [][NextButtons]_vars

\* the guided protocol with clicks anywhere on the main surface
SurfacePositions(step) == {SourceAim[PairOf(step)], DestAim[PairOf(step)], Letterbox}
ClickSurface == \E p \in SurfacePositions(pinningStep) : ClickOn(p)

NextGuided ==
    \/ OverlayImageLoaded
    \/ ResizeObserved
    \/ FieldPhotoLoaded
    \/ FilterPassResolved
    \/ ModeButton
    \/ ClearPinsButton
    \/ ClickSurface

SpecGuided == Init /\ [][NextGuided]_vars

----------------------------------------------------------------------------
(* The solver, the contain fit and the pixel loop run by themselves, on    *)
(* inputs the editor's own layout does not produce.                        *)

\* the state none of the three runs reads or writes, as after the mount
apart == <<editMode, pinningStep, manualScale, isManuallyAdjusted, imageRenderGeom,
           processedOverlayUrl, opacity, draggingSourcePointIndex,
           draggingPointIndex, isDraggingRef, filterPasses, photoLoads,
           domContainer, overlayFile, pointer, saveWithOverlay, saved, app, dialog,
           nDetours>>
Apart ==
    /\ editMode = "manual" /\ pinningStep = 0 /\ manualScale = DefaultScale
    /\ isManuallyAdjusted = FALSE /\ imageRenderGeom = ZeroGeom
    /\ processedOverlayUrl = NullUrl /\ opacity = Rat(7, 10)
    /\ draggingSourcePointIndex = 0 /\ draggingPointIndex = 0
    /\ isDraggingRef = {} /\ filterPasses = <<InitialRules>>
    /\ photoLoads = {NullSize} /\ domContainer = InitialContainer
    /\ overlayFile = OverlayNatural /\ pointer = NoPointer
    /\ saveWithOverlay = TRUE /\ saved = NoSave /\ nDetours = 0
    /\ app = Editing /\ isColorModalOpen = FALSE /\ modalFilters = 0
    /\ filterArrays = InitialFilters

\* getPerspectiveTransform on a source and a destination sequence: the
\* destination is a sequence of SolverQuads or the source sequence, moved as
\* a whole or corner by corner
InitSolver ==
    /\ Apart
    /\ sourcePoints \in SolverQuads
    /\ \E base \in SolverQuads \cup {sourcePoints} :
          destPoints \in
              {MovedBy(base, t) : t \in {IPt(0, 0), IPt(10, 5), IPt(-3, 2)}}
                  \cup {Eager([i \in 1..Len(base) |->
                                Pt(RAdd(base[i].x, n[i].x), RAdd(base[i].y, n[i].y))],
                              Len(base)) :
                          n \in [1..Len(base) -> {IPt(0, 0), IPt(1, 1)}]}
    /\ transform = none
    /\ containerRect = NullSize /\ overlayImageSize = NullSize
    /\ overlayPreviewGeom = ZeroGeom
    /\ colorFilters = InitialRules /\ imageData = <<>> /\ isProcessingOverlay = TRUE

\* setTransform(getPerspectiveTransform(sourcePoints, destPoints))
SolveCorrespondences ==
    /\ transform' = getPerspectiveTransform(sourcePoints, destPoints)
    /\ UNCHANGED <<apart, sourcePoints, destPoints, containerRect, overlayImageSize,
                   overlayPreviewGeom, colorFilters, imageData, isProcessingOverlay>>

NextSolver == SolveCorrespondences

SpecSolver == InitSolver /\ [][NextSolver]_vars

\* calculateObjectContainGeometry on a container and an image
InitContain ==
    /\ Apart
    /\ containerRect \in {Size(w, h) : w \in Sides, h \in Sides}
    /\ overlayImageSize \in {Size(w, h) : w \in Sides, h \in Sides}
    /\ overlayPreviewGeom = ZeroGeom
    /\ sourcePoints = <<>> /\ destPoints = <<>> /\ transform = none
    /\ colorFilters = InitialRules /\ imageData = <<>> /\ isProcessingOverlay = TRUE

\* setOverlayPreviewGeom(calculateObjectContainGeometry(...)) for an element
\* of the size in containerRect
FitImage ==
    /\ overlayPreviewGeom' =
          calculateObjectContainGeometry(containerRect.width, containerRect.height,
                                         overlayImageSize.width, overlayImageSize.height)
    /\ UNCHANGED <<apart, sourcePoints, destPoints, transform, containerRect,
                   overlayImageSize, colorFilters, imageData, isProcessingOverlay>>

NextContain == FitImage

SpecContain == InitContain /\ [][NextContain]_vars

\* the pixel loop of processImageColors on image data and a rule set
InitPixels ==
    /\ Apart
    /\ colorFilters \in FilterChoices
    /\ \E n \in 1..MaxPixels : imageData \in [1..n -> Pixels]
    /\ isProcessingOverlay = TRUE
    /\ sourcePoints = <<>> /\ destPoints = <<>> /\ transform = none
    /\ containerRect = NullSize /\ overlayImageSize = NullSize
    /\ overlayPreviewGeom = ZeroGeom

\* ctx.putImageData of a pass over the canvas, and the pass's .finally
FilterPixels ==
    /\ imageData' = processImageColors(imageData, colorFilters)
    /\ isProcessingOverlay' = FALSE
    /\ UNCHANGED <<apart, sourcePoints, destPoints, transform, containerRect,
                   overlayImageSize, overlayPreviewGeom, colorFilters>>

NextPixels == FilterPixels

SpecPixels == InitPixels /\ [][NextPixels]_vars

----------------------------------------------------------------------------
(* Properties of the guided protocol, checked under Spec.                  *)

\* new is old with exactly one point appended
AppendedOne(old, new) ==
    Len(new) = Len(old) + 1 /\ SubSeq(new, 1, Len(old)) = old

\* C1: in guided mode with step s < 8 a click that changes the sequences or
\* the step is a click on the thumbnail at an even s or on the main surface
\* at an odd s; it appends exactly one point to the matching sequence,
\* leaves the other sequence alone and makes the step s + 1.  A click on
\* the other surface therefore changes nothing.
C1_ClickDiscipline ==
    [][\A p \in ClickPositions(pinningStep) :
          (editMode = "auto" /\ pinningStep < StepsTotal /\ ClickOn(p)) =>
              LET onThumb == ThumbUnder(Cur, p, domContainer)
                  accepted == \/ sourcePoints' # sourcePoints
                              \/ destPoints' # destPoints
                              \/ pinningStep' # pinningStep
              IN  accepted =>
                    /\ pinningStep' = pinningStep + 1
                    /\ IF onThumb
                       THEN /\ pinningStep % 2 = 0
                            /\ AppendedOne(sourcePoints, sourcePoints')
                            /\ destPoints' = destPoints
                       ELSE /\ pinningStep % 2 = 1
                            /\ AppendedOne(destPoints, destPoints')
                            /\ sourcePoints' = sourcePoints]_vars

\* two pairs have been pinned by accepted clicks, and nothing else was done
C1_Witness ==
    /\ editMode = "auto" /\ pinningStep = 4 /\ nDetours = 1
    /\ sourcePoints = <<Pt(Zero, Zero), Pt(RInt(4), Zero)>>
    /\ destPoints = <<DestAim[1], DestAim[2]>>

\* C2: in guided mode the source sequence holds ceil(step/2) points and the
\* destination sequence floor(step/2), with step in 0..8, in every
\* reachable state.
C2_LengthsFollowStep ==
    editMode = "auto" =>
        /\ pinningStep \in 0..StepsTotal
        /\ Len(sourcePoints) = (pinningStep + 1) \div 2
        /\ Len(destPoints) = pinningStep \div 2

\* C3: a press of "Auto Pin" in guided mode leaves both sequences empty and
\* the step at 0.
C3_ReenterEmpties ==
    [][(editMode = "auto" /\ ModeButtonOn("auto")) =>
          /\ sourcePoints' = <<>>
          /\ destPoints' = <<>>
          /\ pinningStep' = 0]_vars

\* the photo's displayed rect and the overlay's natural size are known
LayoutKnown == IsKnown(overlayImageSize) /\ RLt(Zero, imageRenderGeom.width)

\* C4: a press of "Auto Pin" in manual mode leaves both sequences empty and
\* the step at 0.  A press of "Manual Adjust" in guided mode, at any step,
\* the overlay's natural size being known, leaves the step at 0, the dirty
\* flag clear, the source sequence at the four overlay corners and no
\* guided point in the destination sequence.
C4_SwitchCarriesNothing ==
    [][/\ (editMode = "manual" /\ ModeButtonOn("auto")) =>
              /\ sourcePoints' = <<>>
              /\ destPoints' = <<>>
              /\ pinningStep' = 0
       /\ (editMode = "auto" /\ IsKnown(overlayImageSize) /\ ModeButtonOn("manual")) =>
              /\ pinningStep' = 0
              /\ ~isManuallyAdjusted'
              /\ sourcePoints' = OverlayCorners(overlayImageSize)
              /\ \A i \in 1..Len(destPoints) : \A j \in 1..Len(destPoints') :
                     destPoints'[j] # destPoints[i]]_vars

\* C5: whenever both sequences hold 4 points and the solver succeeds on
\* them, the transform is the solver's result for these points.
C5_TransformCurrent ==
    (/\ Len(sourcePoints) = 4 /\ Len(destPoints) = 4
     /\ getPerspectiveTransform(sourcePoints, destPoints) # none)
        => transform = getPerspectiveTransform(sourcePoints, destPoints)

\* C6: whenever either sequence does not hold exactly 4 points the
\* transform is 'none'.
C6_NoneUnlessFourAndFour ==
    (Len(sourcePoints) # 4 \/ Len(destPoints) # 4) => transform = none

\* a fifth source point was pinned after a complete set had a transform
C6_Witness ==
    Len(sourcePoints) = 5 /\ Len(destPoints) = 4 /\ transform = none

\* opacity of the overlay <img> as rendered; 0 when it is not rendered
OverlayOpacity ==
    IF IsKnown(overlayImageSize) /\ processedOverlayUrl # NullUrl
       /\ Len(destPoints) = 4 /\ ~isProcessingOverlay
    THEN opacity ELSE Zero

\* C7: whenever the transform is 'none' the overlay is rendered with zero
\* opacity.
C7_HiddenWithoutTransform ==
    transform = none => OverlayOpacity = Zero

----------------------------------------------------------------------------
(* Properties of the colour-filter passes, checked under SpecFilter.       *)

C19_FailedPassKeepsOverlay ==
    [][(processedOverlayUrl.kind = "filtered" /\ FilterPassRejected)
          => processedOverlayUrl' = processedOverlayUrl]_vars

\* the unfiltered original is committed after the pass of a later rule set
\* failed
C19_Witness ==
    /\ processedOverlayUrl = OriginalUrl
    /\ colorFilters # InitialRules
    /\ filterPasses = <<>>

----------------------------------------------------------------------------
(* Properties of Manual Adjust, checked under SpecLayout.                  *)

\* the container is measured again or the field photo is laid out again
GeometryChange == WindowResized \/ ResizeObserved \/ FieldPhotoLoaded

PhotoGeomIn(sz) ==
    calculateObjectContainGeometry(sz.width, sz.height,
                                   PhotoNatural.width, PhotoNatural.height)

C10_CenteredScaledRectangle ==
    (editMode = "manual" /\ ~isManuallyAdjusted /\ LayoutKnown) =>
        /\ Len(destPoints) = 4
        /\ LET tl == destPoints[1]
               tr == destPoints[2]
               br == destPoints[3]
               bl == destPoints[4]
               g == imageRenderGeom
               w == RSub(tr.x, tl.x)
               h == RSub(bl.y, tl.y)
               maxW == RMul(manualScale, g.width)
               maxH == RMul(manualScale, g.height)
           IN  /\ tl.y = tr.y /\ bl.y = br.y /\ tl.x = bl.x /\ tr.x = br.x
               /\ RLt(Zero, w) /\ RLt(Zero, h)
               /\ RAdd(tl.x, br.x) = RAdd(RMul(Two, g.x), g.width)
               /\ RAdd(tl.y, br.y) = RAdd(RMul(Two, g.y), g.height)
               /\ RMul(w, overlayImageSize.height) = RMul(h, overlayImageSize.width)
               /\ RLe(w, maxW) /\ RLe(h, maxH)
               /\ (w = maxW \/ h = maxH)

\* the upright overlay at full scale, after the container changed its size
C10_Witness ==
    /\ editMode = "manual" /\ ~isManuallyAdjusted /\ LayoutKnown
    /\ manualScale = One
    /\ overlayImageSize # OverlayNatural
    /\ imageRenderGeom # PhotoGeomIn(InitialContainer)
    /\ Len(destPoints) = 4

----------------------------------------------------------------------------
(* Properties of the correspondence store and the guided protocol, checked *)
(* under Spec.                                                             *)

\* C11: in manual mode, once the overlay's natural size is known, the source
\* sequence is the four corners (0,0), (W,0), (W,H), (0,H) of the overlay's
\* natural size in every reachable state: no drag, pointer move, scale
\* change or reset changes it.
C11_SourceIsCorners ==
    (editMode = "manual" /\ IsKnown(overlayImageSize)) =>
        sourcePoints = <<Pt(Zero, Zero),
                         Pt(overlayImageSize.width, Zero),
                         Pt(overlayImageSize.width, overlayImageSize.height),
                         Pt(Zero, overlayImageSize.height)>>

\* manual mode after a scale change, during a drag that moved a destination
\* point
C11_Witness ==
    /\ editMode = "manual" /\ IsKnown(overlayImageSize)
    /\ isManuallyAdjusted /\ manualScale = One
    /\ pointer \in MovePositions /\ draggingPointIndex # 0
    /\ Len(sourcePoints) = 4

\* the contain-fit rect of the overlay image in the thumbnail box, in
\* container coordinates, as the page lays it out
ThumbImageBox ==
    LET box == PreviewRect(domContainer)
        g == calculateObjectContainGeometry(box.width, box.height,
                                            overlayFile.width, overlayFile.height)
    IN  [left |-> RAdd(box.left, g.x), top |-> RAdd(box.top, g.y),
         width |-> g.width, height |-> g.height]

PinsMatchStep ==
    /\ pinningStep \in 0..StepsTotal
    /\ Len(sourcePoints) = (pinningStep + 1) \div 2
    /\ Len(destPoints) = pinningStep \div 2

\* C14: in guided mode, from a state whose sequences match the step (the
\* empty state at step 0 is one), an accepted click leads to such a state
\* one step further, its point appended behind the earlier ones; the click
\* that reaches step 8 leaves 4 source and 4 destination points and the
\* transform the solver gives for them.  At step 8 a click on either
\* surface changes nothing.
C14_EightClicksComplete ==
    [][\A p \in ClickPositions(pinningStep) :
          (editMode = "auto" /\ ClickOn(p)) =>
              /\ pinningStep >= StepsTotal => UNCHANGED vars
              /\ (PinsMatchStep /\ pinningStep < StepsTotal /\ ~UNCHANGED vars) =>
                    /\ pinningStep' = pinningStep + 1
                    /\ PinsMatchStep'
                    /\ \/ AppendedOne(sourcePoints, sourcePoints') /\ destPoints' = destPoints
                       \/ destPoints' = Append(destPoints, p) /\ sourcePoints' = sourcePoints
                    /\ pinningStep' = StepsTotal =>
                          /\ Len(sourcePoints') = 4 /\ Len(destPoints') = 4
                          /\ transform' = getPerspectiveTransform(sourcePoints', destPoints')]_vars

\* Complete after eight clicks and nothing else: the four overlay corners
\* pinned to the four aimed photo positions, in click order, with a transform
C14_Witness ==
    /\ editMode = "auto" /\ pinningStep = StepsTotal /\ nDetours = 1
    /\ sourcePoints = <<Pt(Zero, Zero), Pt(RInt(4), Zero),
                        Pt(RInt(4), RInt(2)), Pt(Zero, RInt(2))>>
    /\ destPoints = DestAim
    /\ transform # none

\* the thumbnail shows the overlay, is measured and is not covered
ThumbReady ==
    /\ editMode = "auto" /\ ~isProcessingOverlay
    /\ IsKnown(overlayImageSize)
    /\ RLt(Zero, overlayPreviewGeom.width)

\* a click on the overlay's top-left corner in the thumbnail is taken as the
\* first source point
AcceptsFirstSourceClick ==
    LET h == DispatchClick(Cur, SourceAim[1],
                           ThumbUnder(Cur, SourceAim[1], domContainer), domContainer)
    IN  h.s.pinningStep = 1 /\ Len(h.s.sourcePoints) = 1 /\ h.s.destPoints = <<>>

\* C15: "Clear Pins" in guided mode, at any step 0..8, leaves the step at 0,
\* both sequences empty and the transform 'none'; and in that state (guided,
\* step 0, both sequences empty) a click on the thumbnail image, where the
\* thumbnail can be clicked, is taken as the source click of step 0.
C15_ClearResets ==
    /\ [][(editMode = "auto" /\ ClearPinsButton) =>
              /\ pinningStep' = 0
              /\ sourcePoints' = <<>>
              /\ destPoints' = <<>>
              /\ transform' = none]_vars
    /\ []((ThumbReady /\ pinningStep = 0 /\ sourcePoints = <<>> /\ destPoints = <<>>)
              => AcceptsFirstSourceClick)

\* Complete with a transform, where "Clear Pins" gives the empty state
C15_Witness ==
    /\ editMode = "auto" /\ pinningStep = StepsTotal /\ transform # none
    /\ pointer = NoPointer /\ ThumbReady
    /\ LET s2 == After(clearPins(Cur))
       IN  s2.pinningStep = 0 /\ s2.sourcePoints = <<>> /\ s2.destPoints = <<>>
           /\ s2.transform = none

\* C16: in guided mode a drag of a source point starts only at an even
\* step, and at an odd step no step of the editor changes the coordinates of
\* a source point that stays in the sequence.
C16_SourceDragOnlyAtEvenStep ==
    [][editMode = "auto" =>
          /\ (draggingSourcePointIndex = 0 /\ draggingSourcePointIndex' # 0)
                => pinningStep % 2 = 0
          /\ (pinningStep % 2 = 1 /\ editMode' = "auto") =>
                \A i \in 1..Len(sourcePoints) :
                    i <= Len(sourcePoints') => sourcePoints'[i] = sourcePoints[i]]_vars

\* an odd step of guided mode after the first source point was dragged away
\* from the corner it was pinned on
C16_Witness ==
    /\ editMode = "auto" /\ pinningStep % 2 = 1
    /\ draggingSourcePointIndex = 0 /\ pointer = NoPointer
    /\ Len(sourcePoints) >= 1
    /\ sourcePoints[1] # Pt(Zero, Zero)

----------------------------------------------------------------------------
(* Properties of the guided protocol with clicks anywhere on the main      *)
(* surface, checked under SpecGuided.                                      *)

\* the rect the field photo is displayed in (object-contain), in container
\* coordinates
PhotoBox ==
    LET g == PhotoGeomIn(domContainer)
    IN  [left |-> g.x, top |-> g.y, width |-> g.width, height |-> g.height]

\* C13: in guided mode at an odd step, a click on the main surface outside
\* the rect the field photo is displayed in changes nothing: no destination
\* point is appended and the step does not advance.
C13_LetterboxClickRejected ==
    [][\A p \in SurfacePositions(pinningStep) :
          (/\ editMode = "auto" /\ pinningStep % 2 = 1
           /\ ~ThumbUnder(Cur, p, domContainer)
           /\ ~InBox(p, PhotoBox)
           /\ ClickOn(p))
              => (destPoints' = destPoints /\ pinningStep' = pinningStep)]_vars

\* a destination point pinned in the letterbox margin
C13_Witness ==
    /\ editMode = "auto"
    /\ ~InBox(Letterbox, PhotoBox)
    /\ \E i \in 1..Len(destPoints) : destPoints[i] = Letterbox

----------------------------------------------------------------------------
(* Properties of the drag handles, checked under SpecButtons.              *)

\* the points whose drag is active: DraggablePoints with isDraggingRef set,
\* and the source point of draggingSourcePointIndex
ActiveDrags ==
    Cardinality(isDraggingRef) + (IF draggingSourcePointIndex # 0 THEN 1 ELSE 0)

\* the points of either sequence that a step gives other coordinates
Repositioned ==
    Cardinality({i \in 1..Len(destPoints) :
                    i <= Len(destPoints') /\ destPoints'[i] # destPoints[i]})
    + Cardinality({i \in 1..Len(sourcePoints) :
                    i <= Len(sourcePoints') /\ sourcePoints'[i] # sourcePoints[i]})

\* C17: at most one point, of both sequences together, has an active drag,
\* and a pointer move repositions at most one point.
C17_OneDragAtATime ==
    /\ [](ActiveDrags <= 1)
    /\ [][(\E p \in {DestAim[2], DestAim[3], IPt(8, 4)} : MouseMoveTo(p))
              => Repositioned <= 1]_vars

\* two destination points follow the pointer together
C17_Witness ==
    /\ Cardinality(isDraggingRef) = 2
    /\ pointer = IPt(8, 4)
    /\ \A i \in isDraggingRef : destPoints[i] = pointer

----------------------------------------------------------------------------
(* Properties of the export, checked under SpecSave.                       *)

\* the points do not allow the export with overlay: a sequence has fewer
\* than 4 points or the solve on the remapped points fails
PointsUnfit ==
    \/ Len(sourcePoints) < 4
    \/ Len(destPoints) < 4
    \/ finalTransform(Cur) = none

\* C18 (as the editor has it): a save request with "Include Overlay" checked
\* made while a sequence has fewer than 4 points or the full-resolution
\* solve fails, and any save request for which no rendering surface can be
\* acquired, hands no file to the download and shows an alert.
C18_AbortedWithError ==
    [][saved'.n # saved.n =>
          LET unfit == saveWithOverlay /\ PointsUnfit
          IN  \A env \in SaveEnvs :
                  ((~env.ctx \/ unfit) /\ SaveRequest(env))
                      => (saved'.out.file = "none" /\ saved'.out.alert)]_vars

\* C18 as claimed: every save request made while a sequence has fewer than
\* 4 points, or the full-resolution solve fails, or no rendering surface can
\* be acquired, hands no file to the download and shows an alert.
C18_AsClaimed ==
    [][saved'.n # saved.n =>
          LET unfit == PointsUnfit
          IN  \A env \in SaveEnvs :
                  ((~env.ctx \/ unfit) /\ SaveRequest(env))
                      => (saved'.out.file = "none" /\ saved'.out.alert)]_vars

\* a save with overlay was refused for points on which the solve fails
C18_Witness ==
    /\ saved.n >= 1 /\ saved.out = Aborted
    /\ saveWithOverlay
    /\ IsKnown(overlayImageSize) /\ processedOverlayUrl # NullUrl
    /\ Len(sourcePoints) = 4 /\ Len(destPoints) = 4
    /\ finalTransform(Cur) = none

\* nothing but the metadata stands in the way of the export: the images
\* load, a context is acquired, the canvas is encoded and, for an export
\* with overlay, the overlay is ready and the points allow the solve
ExportPossible(env, unfit) ==
    /\ env.bg /\ env.ctx /\ env.encode
    /\ IsKnown(overlayImageSize)
    /\ saveWithOverlay => (env.svg /\ processedOverlayUrl # NullUrl /\ ~unfit)

\* C20: a save request whose metadata extraction gives nothing emits the
\* raster without metadata and shows no alert whenever the same request
\* would emit it with metadata; it never emits metadata.  A request whose
\* extraction gives a block emits no file with another block or without it.
C20_MetadataOptional ==
    [][saved'.n # saved.n =>
          LET unfit == PointsUnfit
          IN  \A env \in SaveEnvs :
                  SaveRequest(env) =>
                      /\ (env.exif = 0 /\ ExportPossible(env, unfit)) =>
                            /\ saved'.out.file =
                                  (IF saveWithOverlay THEN "result" ELSE "original")
                            /\ ~saved'.out.alert
                      /\ env.exif = 0 => saved'.out.exif = 0
                      /\ (env.exif # 0 /\ saved'.out.file # "none") =>
                            saved'.out.exif = env.exif]_vars

\* the export with overlay was emitted without metadata and without an alert
C20_Witness ==
    /\ saved.n >= 1
    /\ saved.out.file = "result" /\ saved.out.exif = 0 /\ ~saved.out.alert

\* C21: at save, with the displayed photo rect (the contain fit of the
\* photo in the container) at offset (x, y) and scale = photo natural width
\* / displayed width, every destination point p is remapped to
\* ((p.x - x) * scale, (p.y - y) * scale), the export transform is the
\* solve of the unchanged source points against the remapped points, and
\* the rect's top-left corner goes to (0, 0) and its bottom-right corner to
\* (naturalWidth, naturalHeight).
C21_ExportRemap ==
    (Len(sourcePoints) = 4 /\ Len(destPoints) = 4) =>
        LET geom == PhotoGeomIn(domContainer)
            scale == RDiv(PhotoNatural.width, geom.width)
            remap(p) == Pt(RMul(RSub(p.x, geom.x), scale),
                           RMul(RSub(p.y, geom.y), scale))
            remapped == Eager([i \in 1..4 |-> remap(destPoints[i])], 4)
            corners == <<Pt(geom.x, geom.y),
                         Pt(RAdd(geom.x, geom.width), RAdd(geom.y, geom.height))>>
        IN  /\ imageRenderGeom = geom
            /\ finalDestPoints(Cur) = remapped
            /\ finalTransform(Cur) = getPerspectiveTransform(sourcePoints, remapped)
            /\ finalDestPoints([Cur EXCEPT !.destPoints = corners])
                   = <<Pt(Zero, Zero), Pt(PhotoNatural.width, PhotoNatural.height)>>

\* an export with overlay was emitted from points that the remap moves,
\* with a photo rect at a positive offset
C21_Witness ==
    /\ saved.n >= 1 /\ saved.out.file = "result"
    /\ Len(sourcePoints) = 4 /\ Len(destPoints) = 4
    /\ RLt(Zero, imageRenderGeom.x)
    /\ \A i \in 1..4 : finalDestPoints(Cur)[i] # destPoints[i]
    /\ destPoints # updatePointsForScale(Cur, manualScale)

\* C22: for correspondences the display solve succeeds on, the export
\* solve succeeds too and, at every point p of the overlay's plane that the
\* display transform puts somewhere, the export transform puts p where the
\* remap puts the display transform's image of p.
C22_ExportMatchesPreview ==
    (Len(sourcePoints) = 4 /\ Len(destPoints) = 4) =>
        LET geom == PhotoGeomIn(domContainer)
            scale == RDiv(PhotoNatural.width, geom.width)
            remap(p) == Pt(RMul(RSub(p.x, geom.x), scale),
                           RMul(RSub(p.y, geom.y), scale))
            displayTransform == getPerspectiveTransform(sourcePoints, destPoints)
            exportTransform == finalTransform(Cur)
        IN  displayTransform # none =>
                /\ exportTransform # none
                /\ \A p \in ProbePoints :
                       Matrix3dW(displayTransform, p) # Zero =>
                           /\ Matrix3dW(exportTransform, p) # Zero
                           /\ ApplyMatrix3d(exportTransform, p)
                                 = remap(ApplyMatrix3d(displayTransform, p))

\* an export with overlay was emitted under a display transform with
\* perspective
C22_Witness ==
    /\ saved.n >= 1 /\ saved.out.file = "result"
    /\ transform # none
    /\ transform = getPerspectiveTransform(sourcePoints, destPoints)
    /\ (transform[4] # Zero \/ transform[8] # Zero)

----------------------------------------------------------------------------
(* Properties of the solver, checked under SpecSolver.                     *)

\* three points of pts, at three places of the sequence, lie on one line
\* (two of them equal included)
ThreeCollinear(pts) ==
    \E i, j, k \in 1..Len(pts) :
        /\ i < j /\ j < k
        /\ RMul(RSub(pts[j].x, pts[i].x), RSub(pts[k].y, pts[i].y))
              = RMul(RSub(pts[j].y, pts[i].y), RSub(pts[k].x, pts[i].x))

\* 4 source and 4 destination points, no three of either on one line
NonDegenerate ==
    /\ Len(sourcePoints) = 4 /\ Len(destPoints) = 4
    /\ ~ThreeCollinear(sourcePoints) /\ ~ThreeCollinear(destPoints)

C24_DegenerateGivesNone ==
    (\/ Len(sourcePoints) # 4 \/ Len(destPoints) # 4
     \/ ThreeCollinear(sourcePoints) \/ ThreeCollinear(destPoints))
        => transform = none

\* a matrix was solved for destination points with three on one line; it
\* has w = 0 at a source point
C24_Witness ==
    /\ Len(sourcePoints) = 4 /\ Len(destPoints) = 4
    /\ ~ThreeCollinear(sourcePoints) /\ ThreeCollinear(destPoints)
    /\ transform # none
    /\ \E i \in 1..4 : Matrix3dW(transform, sourcePoints[i]) = Zero

\* C25: for destination points that are the source points moved by one
\* translation t, a solved matrix is the translation by t (a = e = 1,
\* b = d = g = h = 0, (c, f) = t), and the solve succeeds when no three
\* source points are on one line; the square (0,0),(10,0),(10,10),(0,10)
\* with t = (10, 5) sends (3, 3) to (13, 8).
C25_TranslationSolved ==
    LET t == Pt(RSub(destPoints[1].x, sourcePoints[1].x),
                RSub(destPoints[1].y, sourcePoints[1].y))
        translation == <<One, Zero, Zero, Zero,
                         Zero, One, Zero, Zero,
                         Zero, Zero, One, Zero,
                         t.x, t.y, Zero, One>>
    IN  (/\ Len(sourcePoints) = 4 /\ Len(destPoints) = 4
         /\ destPoints = MovedBy(sourcePoints, t)) =>
            /\ transform # none => transform = translation
            /\ ~ThreeCollinear(sourcePoints) =>
                  getPerspectiveTransform(sourcePoints, destPoints) = translation
            /\ (transform # none /\ sourcePoints[3] = IPt(10, 10) /\ t = IPt(10, 5)) =>
                  ApplyMatrix3d(transform, IPt(3, 3)) = IPt(13, 8)

\* the translation scenario was solved
C25_Witness ==
    /\ sourcePoints = <<IPt(0, 0), IPt(10, 0), IPt(10, 10), IPt(0, 10)>>
    /\ destPoints = <<IPt(10, 5), IPt(20, 5), IPt(20, 15), IPt(10, 15)>>
    /\ transform # none
    /\ ApplyMatrix3d(transform, IPt(3, 3)) = IPt(13, 8)

----------------------------------------------------------------------------
(* Properties of the contain fit, checked under SpecContain.               *)

\* C26: the rect fitted for a container and an image of positive sizes has
\* the image's aspect ratio and lies inside the container; when the two
\* aspect ratios differ, one of its offsets is 0 and the other is positive
\* and half of what the rect leaves of the container on that axis; when
\* they are equal the rect is the container.  A 100x200 image in a 400x400
\* container gives x = 100, y = 0, width = 200, height = 400.
C26_ContainFit ==
    overlayPreviewGeom # ZeroGeom =>
        LET g == overlayPreviewGeom
            c == containerRect
            im == overlayImageSize
            sameRatio == RMul(im.width, c.height) = RMul(c.width, im.height)
        IN  /\ RLt(Zero, g.width) /\ RLt(Zero, g.height)
            /\ RMul(g.width, im.height) = RMul(g.height, im.width)
            /\ RLe(Zero, g.x) /\ RLe(RAdd(g.x, g.width), c.width)
            /\ RLe(Zero, g.y) /\ RLe(RAdd(g.y, g.height), c.height)
            /\ ~sameRatio =>
                  \/ /\ g.x = Zero /\ RLt(Zero, g.y)
                     /\ g.y = RDiv(RSub(c.height, g.height), Two)
                  \/ /\ g.y = Zero /\ RLt(Zero, g.x)
                     /\ g.x = RDiv(RSub(c.width, g.width), Two)
            /\ sameRatio => g = Geom(Zero, Zero, c.width, c.height)
            /\ (c = Size(RInt(400), RInt(400)) /\ im = Size(RInt(100), RInt(200))) =>
                  g = Geom(RInt(100), Zero, RInt(200), RInt(400))

\* the scenario of the 100x200 image in the 400x400 container was fitted
C26_Witness ==
    /\ containerRect = Size(RInt(400), RInt(400))
    /\ overlayImageSize = Size(RInt(100), RInt(200))
    /\ overlayPreviewGeom = Geom(RInt(100), Zero, RInt(200), RInt(400))

----------------------------------------------------------------------------
(* Properties of the pixel loop, checked under SpecPixels.                 *)

\* the pixel is within the tolerance of a rule of rules
MatchesAny(pixel, rules) ==
    \E k \in 1..Len(rules) : WithinTolerance(pixel, rules[k])

\* C27: a pass over image data that a pass with the same rule set has
\* produced leaves all four channels of every pixel as they are.
C27_SecondPassNoOp ==
    ~isProcessingOverlay => processImageColors(imageData, colorFilters) = imageData

\* a pass has made a pixel opaque in a keep rule's colour, and a second
\* pass with the same rule set makes it transparent
C27_Witness ==
    /\ ~isProcessingOverlay
    /\ \E i \in 1..Len(imageData) :
          /\ imageData[i].a = 255
          /\ MatchesAny(imageData[i], colorFilters.keep)
          /\ processImageColors(imageData, colorFilters)[i].a = 0

\* C28: a pass gives every pixel within the tolerance of a remove rule
\* alpha 0 and leaves its R, G and B as they are, whether or not the pixel
\* is within the tolerance of a keep rule.
C28_RemoveFirst ==
    [][\A i \in 1..Len(imageData) :
          MatchesAny(imageData[i], colorFilters.remove) =>
              imageData'[i] = [imageData[i] EXCEPT !.a = 0]]_vars

\* a pass has made transparent, without recolouring it, a pixel within the
\* tolerance of a remove rule and of a keep rule of another colour
C28_Witness ==
    /\ ~isProcessingOverlay
    /\ \E i \in 1..Len(imageData) :
          /\ imageData[i].a = 0
          /\ MatchesAny(imageData[i], colorFilters.remove)
          /\ \E k \in 1..Len(colorFilters.keep) :
                /\ WithinTolerance(imageData[i], colorFilters.keep[k])
                /\ hexToRgb(colorFilters.keep[k].color)
                      # [r |-> imageData[i].r, g |-> imageData[i].g, b |-> imageData[i].b]

\* C29: with a keep rule in the rule set, a pass gives a pixel within no
\* remove rule's tolerance the colour of the first keep rule, in list
\* order, whose tolerance it is within, and alpha 255, whatever its alpha
\* was; within no keep rule's tolerance it gets alpha 0.  The pixel
\* (255,0,0) under keep = [#ff0000, 80], remove = [#ffffff, 5] becomes
\* (255,0,0,255).
C29_FirstKeepRecolors ==
    [][\A i \in 1..Len(imageData) :
          LET pixel == imageData[i]
              keep == colorFilters.keep
          IN  (~MatchesAny(pixel, colorFilters.remove) /\ Len(keep) > 0) =>
                  /\ \A k \in 1..Len(keep) :
                        (/\ WithinTolerance(pixel, keep[k])
                         /\ \A j \in 1..(k - 1) : ~WithinTolerance(pixel, keep[j])) =>
                            /\ imageData'[i].r = 16 * keep[k].color[1] + keep[k].color[2]
                            /\ imageData'[i].g = 16 * keep[k].color[3] + keep[k].color[4]
                            /\ imageData'[i].b = 16 * keep[k].color[5] + keep[k].color[6]
                            /\ imageData'[i].a = 255
                  /\ ~MatchesAny(pixel, keep) => imageData'[i].a = 0
                  /\ (/\ pixel.r = 255 /\ pixel.g = 0 /\ pixel.b = 0
                      /\ colorFilters = [keep |-> <<ColorFilter(Colors.red, 80)>>,
                                         remove |-> <<ColorFilter(Colors.white, 5)>>]) =>
                        imageData'[i] = Rgba(255, 0, 0, 255)]_vars

\* a pass under two keep rules has given a pixel the first rule's colour
\* although it was within both tolerances and had the second rule's colour,
\* and has made another pixel transparent
C29_Witness ==
    /\ ~isProcessingOverlay
    /\ colorFilters = [keep |-> <<ColorFilter(Colors.orange, 80), ColorFilter(Colors.red, 80)>>,
                       remove |-> <<ColorFilter(Colors.white, 5)>>]
    /\ Len(imageData) = 2
    /\ imageData[1] = Rgba(255, 100, 0, 255)
    /\ imageData[2] = Rgba(0, 0, 0, 0)

\* C30: under a rule set without keep rules, a pass leaves R, G, B and A
\* of every pixel within no remove rule's tolerance as they are.
C30_PassThrough ==
    [][\A i \in 1..Len(imageData) :
          (~MatchesAny(imageData[i], colorFilters.remove) /\ Len(colorFilters.keep) = 0)
              => imageData'[i] = imageData[i]]_vars

\* a pass without keep rules has removed one pixel and left a half
\* transparent one beside it as it was
C30_Witness ==
    /\ ~isProcessingOverlay
    /\ colorFilters = [keep |-> <<>>, remove |-> <<ColorFilter(Colors.white, 5)>>]
    /\ Len(imageData) = 2
    /\ imageData[1] = Rgba(255, 255, 255, 0)
    /\ imageData[2] = Rgba(255, 0, 0, 128)

----------------------------------------------------------------------------
(* Properties of a whole drag gesture, checked under Spec.                 *)

\* C31: the steps of a drag gesture (the press on a handle, the pointer
\* moves and the release) leave the step counter and the lengths of both
\* sequences as they are, and change no point other than the one at the
\* dragged index.
C31_DragChangesOnlyDragged ==
    [][pointer' # pointer =>
          /\ pinningStep' = pinningStep
          /\ Len(sourcePoints') = Len(sourcePoints)
          /\ Len(destPoints') = Len(destPoints)
          /\ \A i \in 1..Len(destPoints) :
                i # draggingPointIndex => destPoints'[i] = destPoints[i]
          /\ \A i \in 1..Len(sourcePoints) :
                i # draggingSourcePointIndex => sourcePoints'[i] = sourcePoints[i]]_vars

\* destination point 1 was dragged at step 3 and released: the click of the
\* release has appended destination point 2 where point 1 was dropped
C31_Witness ==
    /\ editMode = "auto" /\ pointer = NoPointer
    /\ pinningStep = 4
    /\ Len(destPoints) = 2
    /\ destPoints[1] = IPt(8, 4)
    /\ destPoints[2] = IPt(8, 4)

----------------------------------------------------------------------------
(* Properties of the explicit reset, checked under Spec.                   *)

\* C32: in manual mode with the layout known, the state a press of "Reset
\* Points" leaves has the dirty flag clear, the scale at 0.5, the
\* destination sequence at the centred rectangle of scale 0.5 for the
\* current geometry, and the transform solved from the two sequences.
C32_ResetRestores ==
    (editMode = "manual" /\ pointer = NoPointer /\ LayoutKnown) =>
        LET s2 == After(resetPoints(Cur))
        IN  /\ ~s2.isManuallyAdjusted
            /\ s2.manualScale = DefaultScale
            /\ s2.destPoints = updatePointsForScale(s2, DefaultScale)
            /\ s2.transform = getPerspectiveTransform(s2.sourcePoints, s2.destPoints)
            /\ s2.transform # none

\* the rectangle of scale 0.5 is in place with the flag clear, and the
\* transform is 'none': a press of "Reset Points" sets no state
C32_Witness ==
    /\ editMode = "manual" /\ pointer = NoPointer /\ LayoutKnown
    /\ ~isManuallyAdjusted /\ manualScale = DefaultScale
    /\ sourcePoints = OverlayCorners(overlayImageSize)
    /\ destPoints = updatePointsForScale(Cur, DefaultScale)
    /\ transform = none
    /\ After(resetPoints(Cur)) = Cur

----------------------------------------------------------------------------
(* The match test of the pixel loop, checked under SpecPixels.             *)

\* the Euclidean RGB distance between the pixel and the rule's colour is
\* less than tolerance * 2.55 (both sides squared and times 100 * 100)
Nearer(pixel, rule) ==
    LET dr == pixel.r - (16 * rule.color[1] + rule.color[2])
        dg == pixel.g - (16 * rule.color[3] + rule.color[4])
        db == pixel.b - (16 * rule.color[5] + rule.color[6])
    IN  100 * 100 * (dr * dr + dg * dg + db * db)
            < (255 * rule.tolerance) * (255 * rule.tolerance)

\* C33: what a pass does to a pixel is decided by the rules whose colour is
\* at a Euclidean RGB distance strictly less than tolerance * 2.55 from the
\* pixel's, whatever the pixel's alpha: with keep rules the pixel becomes
\* opaque iff no remove rule and some keep rule is that near, and
\* transparent otherwise; without keep rules a visible pixel becomes
\* transparent iff some remove rule is that near.  A rule of tolerance 0
\* removes no pixel, not even one of its own colour, and a white remove
\* rule of tolerance 5 removes (250,250,250).
C33_MatchIffNearer ==
    [][\A i \in 1..Len(imageData) :
          LET pixel == imageData[i]
              keep == colorFilters.keep
              remove == colorFilters.remove
              removed == \E k \in 1..Len(remove) : Nearer(pixel, remove[k])
              kept == \E k \in 1..Len(keep) : Nearer(pixel, keep[k])
          IN  /\ Len(keep) > 0 =>
                    /\ imageData'[i].a = 255 <=> (~removed /\ kept)
                    /\ imageData'[i].a = 0 <=> (removed \/ ~kept)
              /\ Len(keep) = 0 =>
                    /\ removed => imageData'[i].a = 0
                    /\ ~removed => imageData'[i].a = pixel.a
              /\ (\A k \in 1..Len(remove) : remove[k].tolerance = 0) => ~removed
              /\ (/\ pixel.r = 250 /\ pixel.g = 250 /\ pixel.b = 250
                  /\ \E k \in 1..Len(remove) : remove[k] = ColorFilter(Colors.white, 5))
                    => imageData'[i].a = 0]_vars

\* a pass under a yellow remove rule of tolerance 0 alone has left a yellow
\* pixel and a half transparent (250,250,250) as they were
C33_Witness ==
    /\ ~isProcessingOverlay
    /\ colorFilters = [keep |-> <<>>, remove |-> <<ColorFilter(Colors.yellow, 0)>>]
    /\ Len(imageData) = 2
    /\ imageData[1] = Rgba(255, 255, 0, 255)
    /\ imageData[2] = Rgba(250, 250, 250, 128)

----------------------------------------------------------------------------
(* The processing flag, checked under SpecFilter.                          *)

\* C36: while a filter pass is still in flight the processing flag is set.
C36_ProcessingWhileInFlight ==
    Len(filterPasses) > 0 => isProcessingOverlay

\* the pass of an earlier rule set has settled and cleared the flag while
\* the pass of the active rule set is still running
C36_Witness ==
    /\ Len(filterPasses) = 1
    /\ filterPasses[1] = colorFilters
    /\ ~isProcessingOverlay
    /\ processedOverlayUrl.kind = "filtered"
    /\ processedOverlayUrl # FilteredUrl(colorFilters)

----------------------------------------------------------------------------
(* The range of the guided source points, checked under Spec.              *)

----------------------------------------------------------------------------
(* The layout of the solved matrix, checked under SpecSolver.              *)

\* what solveSystem gives for the equations of the current correspondences
SolvedCoefficients ==
    solveSystem(
        Eager([r \in 1..SysN |->
                 IF r % 2 = 1
                 THEN EqX(sourcePoints[(r + 1) \div 2], destPoints[(r + 1) \div 2])
                 ELSE EqY(sourcePoints[r \div 2], destPoints[r \div 2])], SysN),
        Eager([r \in 1..SysN |->
                 IF r % 2 = 1 THEN destPoints[(r + 1) \div 2].x
                 ELSE destPoints[r \div 2].y], SysN))

\* row r of the product of the 4 x 4 matrix with entries m, taken column by
\* column, and the column vector v
MatrixRow(m, v, r) ==
    RAdd(RAdd(RMul(m[r], v[1]), RMul(m[4 + r], v[2])),
         RAdd(RMul(m[8 + r], v[3]), RMul(m[12 + r], v[4])))

\* C40: a solved matrix is [a,d,0,g, b,e,0,h, 0,0,1,0, c,f,0,1] for the
\* solver's coefficients [a,b,c,d,e,f,g,h]; taken column by column and
\* applied to (x, y, 0, 1) it gives z = 0 and w = g*x + h*y + 1, and after
\* the division by w the point ((a*x + b*y + c) / w, (d*x + e*y + f) / w).
C40_ColumnMajorEmbedding ==
    transform # none =>
        LET h == SolvedCoefficients
        IN  /\ h # null
            /\ transform = <<h[1], h[4], Zero, h[7],
                             h[2], h[5], Zero, h[8],
                             Zero, Zero, One, Zero,
                             h[3], h[6], Zero, One>>
            /\ \A p \in ProbePoints :
                  LET v == <<p.x, p.y, Zero, One>>
                      w == RAdd(RAdd(RMul(h[7], p.x), RMul(h[8], p.y)), One)
                  IN  /\ MatrixRow(transform, v, 3) = Zero
                      /\ MatrixRow(transform, v, 4) = w
                      /\ w # Zero =>
                            /\ RDiv(MatrixRow(transform, v, 1), w)
                                 = RDiv(RAdd(RAdd(RMul(h[1], p.x), RMul(h[2], p.y)), h[3]), w)
                            /\ RDiv(MatrixRow(transform, v, 2), w)
                                 = RDiv(RAdd(RAdd(RMul(h[4], p.x), RMul(h[5], p.y)), h[6]), w)
                            /\ ApplyMatrix3d(transform, p)
                                 = Pt(RDiv(MatrixRow(transform, v, 1), w),
                                      RDiv(MatrixRow(transform, v, 2), w))

\* a matrix with both perspective entries, both translation entries and
\* shear was solved
C40_Witness ==
    /\ Len(sourcePoints) = 4 /\ Len(destPoints) = 4
    /\ transform # none
    /\ transform[4] # Zero /\ transform[8] # Zero
    /\ transform[13] # Zero /\ transform[14] # Zero
    /\ transform[2] # Zero /\ transform[5] # Zero
    /\ transform[1] # transform[6]

----------------------------------------------------------------------------
(* The overlay an export composites, checked under SpecFilterSave.         *)

\* C37: a save request that produces the file with the overlay composites
\* a filtered overlay only if it was filtered under the active rule set.
C37_SaveUsesActiveRules ==
    [][(/\ saved'.n # saved.n
        /\ saved'.out.file = "result"
        /\ processedOverlayUrl.kind = "filtered")
          => processedOverlayUrl = FilteredUrl(colorFilters)]_vars

\* the file with the overlay was produced while the pass of the active rule
\* set was still running and the committed overlay was the one filtered
\* under the rule set before
C37_Witness ==
    /\ saved.n = 1 /\ saved.out.file = "result"
    /\ filterPasses = <<colorFilters>>
    /\ isProcessingOverlay
    /\ processedOverlayUrl.kind = "filtered"
    /\ processedOverlayUrl # FilteredUrl(colorFilters)

----------------------------------------------------------------------------
(* The colour-filter dialog, checked under SpecDialog.                     *)

\* C38: the active rule set (the object in colorFilters and what its keep
\* and remove arrays hold) changes only in a step that applies the dialog's
\* rules and closes it, and every such change starts a filter pass: no
\* edit inside the dialog and no Cancel changes it.
C38_RulesChangeOnlyThroughApply ==
    [][(colorFilters' # colorFilters \/ filterArrays' # filterArrays) =>
          /\ isColorModalOpen /\ ~isColorModalOpen'
          /\ colorFilters' = modalFilters
          /\ filterPasses' = Append(filterPasses, colorFilters')
          /\ isProcessingOverlay']_vars

\* the dialog was cancelled after edits: colorFilters is the initial object
\* and no pass was started after the first, but its arrays hold other rules
\* than the committed overlay was filtered under
C38_Witness ==
    /\ ~isColorModalOpen
    /\ colorFilters = InitialRules
    /\ filterArrays # InitialFilters
    /\ filterPasses = <<>>
    /\ ~isProcessingOverlay
    /\ processedOverlayUrl = FilteredUrl(InitialRules)

----------------------------------------------------------------------------
(* Properties of App, checked under SpecApp.                               *)

\* C34: while App is in the EDITING state the field photo and the
\* cadastral image are both present.
C34_EditingHasBothImages ==
    app.appState = "EDITING" =>
        (app.fieldPhoto # NoFile /\ app.cadastralImage # 0)

\* the editor was started with one photo while the load of a large one was
\* pending; its resize prompt came up over the editor and was cancelled
C34_Witness ==
    /\ app.appState = "EDITING"
    /\ app.fieldPhoto = NoFile /\ app.cadastralImage # 0
    /\ ~app.showResizePrompt
    /\ app.reading = {} /\ app.resizing = {}
    /\ app.nSelected = 2

\* C35: with no load and no resize pending and no resize prompt open, the
\* field photo App holds is the one the user selected last, and none after
\* the user removed or cancelled it.
C35_LatestSelectionWins ==
    (app.reading = {} /\ app.resizing = {} /\ ~app.showResizePrompt)
        => app.fieldPhoto.n = app.selected

\* the first of two selected photos is held although the second was selected
\* after it and nothing is pending
C35_Witness ==
    /\ app.reading = {} /\ app.resizing = {} /\ ~app.showResizePrompt
    /\ app.selected = 2
    /\ app.fieldPhoto.n = 1

====
